---- MODULE Spec2Model ----
(***************************************************************************)
(* A model of hdfs-mount: the random-access reader and its pool of         *)
(* streams, the sequential read buffer of a file handle, the write stager, *)
(* the retry policy with the fault-tolerant accessor and stream, the       *)
(* directory/attribute cache, the backoff delays, the tree of an expanded  *)
(* archive, Unmount, the handles of a file, the allowed-prefix gate of     *)
(* Lookup, the name-node connection of the accessor, the first parse of    *)
(* an archive root, and the handle of a file inside an archive.  Each      *)
(* component has its own specification (SpecRAR, SpecRARFaulty, SpecFHR,   *)
(* SpecFHRRejecting, SpecWriter, SpecFT, SpecDir, SpecBackoff, SpecZip,    *)
(* SpecUnmount, SpecHandle, SpecGate, SpecAcc, SpecZroot, SpecZfh); the    *)
(* variables of the other components stay at their initial values.         *)
(***************************************************************************)
EXTENDS Integers, Sequences, FiniteSets, TLC

\* ------------------------------------------------------------------------
\* Bounds of the model
\* ------------------------------------------------------------------------

\* Size in bytes of the file behind the random-access reader
FileSize == 3
\* Largest buffer handed to ReadAt
MaxRead == 2
\* Number of ReadAt calls started in one behaviour
MaxCalls == 3
\* A small pool capacity, next to the default one
SmallPool == 1
\* Number of backend errors the streams of the reader raise in one behaviour
MaxFaults == 1

\* Concurrent callers of ReadAt
Threads == {"t1", "t2"}

\* Size in bytes of the file read through the file handle
FhrFileSize == 5
\* Largest size of a kernel read request
MaxReqSize == 3
\* Number of read requests issued on the handle in one behaviour
MaxRequests == 3
\* The block size of the sequential read buffer, scaled down from the
\* 65536 of the source so that holes and seeks occur in a small file
BLOCKSIZE == 2

\* Largest MaxAttempts of a retry policy
PolicyMaxAttempts == 3
\* TimeLimit of the retry policy, in clock units
TimeLimit == 2
\* MinDelay of the retry policy, in clock units
MinDelay == 2
\* MaxDelay of the retry policy before any signal, in clock units
InitialMaxDelay == 3
\* The clock stops being observed here; operations start early enough to end before
MaxTime == 6
\* Size in bytes of the file behind the fault-tolerant stream
FtFileSize == 3
\* Largest buffer handed to Read on the fault-tolerant stream
MaxFtRead == 2
\* Number of calls made on the fault-tolerant accessor in one behaviour
MaxAccessorCalls == 1
\* Number of calls made on the fault-tolerant stream in one behaviour
MaxStreamCalls == 2

\* Largest offset of a write request on the write handle
MaxWriteOffset == 1
\* Largest number of bytes in a write request
MaxWriteLen == 1
\* Number of write requests issued on the handle in one behaviour
MaxWrites == 2
\* Number of Flush requests issued on the handle in one behaviour
MaxFlushes == 2

\* The time attributes stay cached, one minute, in clock ticks
AttrTTL == 1
\* The clock of the directory cache stops being advanced here
MaxClock == 2
\* Number of FUSE requests served by the directory in one behaviour
MaxDirOps == 3

\* Retry delays: the largest MinDelay and MaxDelay of the small policies,
\* their time limit, and the number of ShouldRetry calls made on one Op
MaxMinDelay == 2
MaxMaxDelay == 4
BackoffTimeLimit == 12
MaxBackoffCalls == 12

\* Zip archives: the deepest path of an entry, the number of entries of an
\* archive, and the number of requests served on the expanded archive
MaxZipDepth == 3
MaxZipEntries == 3
MaxZipOps == 3

\* Unmount: the number of resources registered to be closed on unmount and
\* the number of signals the handler receives
MaxResources == 2
MaxSignals == 2

\* Number of handles opened on the file and of kernel requests served on the
\* file and its handles
MaxHandles == 2
MaxHandleOps == 4

\* ------------------------------------------------------------------------
\* State
\* ------------------------------------------------------------------------

VARIABLES
    \* randomAccessReaderImpl
    Pool,        \* Pool: seek position -> index of an idle stream
    PoolIsNil,   \* TRUE once Close has set Pool to nil
    MaxReaders,  \* capacity of the pool
    streams,     \* every stream File.OpenRead returned: [position, IsClosed]
    calls,       \* per thread: the ReadAt call it is executing
    nCalls,      \* number of ReadAt calls started
    rarFaults    \* number of backend errors the streams may still raise

rarVars == <<Pool, PoolIsNil, MaxReaders, streams, calls, nCalls, rarFaults>>

VARIABLES
    \* FileHandleReader
    fhrOffset,     \* Offset: the offset the reader believes the backend stream is at
    Buffer1,       \* most recent fragment: [Offset, Data]
    Buffer2,       \* least recent fragment: [Offset, Data]
    hdfsPosition,  \* the backend stream's actual position
    seekRejects,   \* TRUE when the backend rejects a Seek past the end of the file
    req,           \* the read request the handle is serving, and its response
    nReqs          \* number of read requests issued

fhrVars == <<fhrOffset, Buffer1, Buffer2, hdfsPosition, seekRejects, req, nReqs>>

VARIABLES
    \* RetryPolicy, Clock, FaultTolerantHdfsAccessor, FaultTolerantHdfsReader
    MaxAttempts,      \* RetryPolicy.MaxAttempts
    MaxDelay,         \* RetryPolicy.MaxDelay
    RandomizeDelays,  \* RetryPolicy.RandomizeDelays
    now,              \* Clock.Now()
    op,               \* the call in flight with its Op (retry context) and its result
    reader,           \* FaultTolerantHdfsReader: Impl present, backend position, Offset
    nOps              \* number of calls started: [accessor, stream]

ftVars == <<MaxAttempts, MaxDelay, RandomizeDelays, now, op, reader, nOps>>

VARIABLES
    \* FileHandleWriter and the file it writes to on the store
    stagingFile,  \* content of the local staging file
    writer,       \* BytesWritten, the request in progress, the last response
    store,        \* the file on the store: [exists, data]
    nWriterReqs   \* number of requests issued: [write, flush]

writerVars == <<stagingFile, writer, store, nWriterReqs>>

VARIABLES
    \* FileSystem, Dir, File and the store's namespace
    AllowedPrefixes,  \* FileSystem.AllowedPrefixes
    ExpandZips,       \* FileSystem.ExpandZips
    hdfs,             \* the directory on the store: name -> [exists, isDir, mode]
    Entries,          \* Dir.Entries of the root directory: name -> node
    nodes,            \* every child node created: [kind, Attrs]
    clock,            \* FileSystem.Clock.Now()
    dres,             \* the last request served and its response
    listed,           \* names of the last listing that were not evicted since
    nDirOps           \* number of requests served

dirVars == <<AllowedPrefixes, ExpandZips, hdfs, Entries, nodes, clock, dres, listed, nDirOps>>

VARIABLES
    \* A RetryPolicy of its own and one Op on it, for the delays of ShouldRetry
    bk           \* the policy, the Op, the clock and the sleeps observed

backoffVars == <<bk>>

VARIABLES
    \* ZipDir and ZipFile: an archive expanded as a directory tree
    zarchive,    \* the entries of the archive, in the order zip.Reader lists them
    ztree,       \* the tree below the archive root, NoTree while SubDirs is nil
    zcur,        \* the node the kernel has walked to
    zres,        \* the last request served and its response
    nZipOps      \* number of requests served

zipVars == <<zarchive, ztree, zcur, zres, nZipOps>>

VARIABLES
    \* FileSystem.Mounted, FileSystem.closeOnUnmount and the callers of Unmount
    Mounted,         \* FileSystem.Mounted
    closeOnUnmount,  \* the resources registered, in order
    closeCount,      \* per resource: how many times Close was called on it
    unmounter,       \* per caller of Unmount: where it stands in Unmount
    nSignals         \* number of signals the handler has taken

unmountVars == <<Mounted, closeOnUnmount, closeCount, unmounter, nSignals>>

VARIABLES
    \* One File, its FileHandles and the kernel requests on them
    fileHandles,     \* every handle NewFileHandle made: Reader, Writer, Mutex
    activeHandles,   \* File.activeHandles
    kreq,            \* per kernel request in flight: its operation and position
    nHandleOps       \* number of kernel requests started

handleVars == <<fileHandles, activeHandles, kreq, nHandleOps>>

VARIABLES
    \* A walk from the root directory by Lookups under the prefix gate
    gate             \* FileSystem.AllowedPrefixes, the Dir reached, the last Lookup

VARIABLES
    \* hdfsAccessorImpl and the threads calling it
    acc,             \* NameNodeAddresses, CurrentNameNodeIdx, MetadataClient, the mutex
    athr             \* per thread: the operation it is in and its position

accVars == <<acc, athr>>

VARIABLES
    \* One archive root ZipDir and the threads calling Lookup and ReadDirAll
    zroot,           \* SubDirs, Files, ReadArchiveLock of the root
    zthr             \* per thread: the call it is in and its position

zrootVars == <<zroot, zthr>>

VARIABLES
    \* One ZipFileHandle and the kernel's Read requests on it
    zfh,             \* offset and lock of the handle
    zreq             \* per kernel thread: the Read it serves and its position

zfhVars == <<zfh, zreq>>

\* The variables of the components that follow the nine above
extraVars == <<gate, accVars, zrootVars, zfhVars>>

\* The variables of the components added to the five above
moreVars == <<backoffVars, zipVars, unmountVars, handleVars, extraVars>>

vars == <<rarVars, fhrVars, ftVars, writerVars, dirVars, moreVars>>

\* The variables each component leaves alone
OthersRAR == <<fhrVars, ftVars, writerVars, dirVars, moreVars>>
OthersFHR == <<rarVars, ftVars, writerVars, dirVars, moreVars>>
OthersFT == <<rarVars, fhrVars, writerVars, dirVars, moreVars>>
OthersWriter == <<rarVars, fhrVars, ftVars, dirVars, moreVars>>
OthersWriterAndFT == <<rarVars, fhrVars, dirVars, moreVars>>
OthersDir == <<rarVars, fhrVars, ftVars, writerVars, moreVars>>
OthersBackoff == <<rarVars, fhrVars, ftVars, writerVars, dirVars, zipVars, unmountVars, handleVars, extraVars>>
OthersZip == <<rarVars, fhrVars, ftVars, writerVars, dirVars, backoffVars, unmountVars, handleVars, extraVars>>
OthersUnmount == <<rarVars, fhrVars, ftVars, writerVars, dirVars, backoffVars, zipVars, handleVars, extraVars>>
OthersGate == <<rarVars, fhrVars, ftVars, writerVars, dirVars, backoffVars, zipVars, unmountVars, handleVars, accVars, zrootVars, zfhVars>>
OthersAcc == <<rarVars, fhrVars, ftVars, writerVars, dirVars, backoffVars, zipVars, unmountVars, handleVars, gate, zrootVars, zfhVars>>
OthersZfh == <<rarVars, fhrVars, ftVars, writerVars, dirVars, backoffVars, zipVars, unmountVars, handleVars, gate, accVars, zrootVars>>
OthersZroot == <<rarVars, fhrVars, ftVars, writerVars, dirVars, backoffVars, zipVars, unmountVars, handleVars, gate, accVars, zfhVars>>
OthersHandle == <<rarVars, fhrVars, ftVars, writerVars, dirVars, backoffVars, zipVars, unmountVars, extraVars>>

\* ------------------------------------------------------------------------
\* Helpers
\* ------------------------------------------------------------------------

Min(a, b) == IF a < b THEN a ELSE b

Max(a, b) == IF a > b THEN a ELSE b

\* The content of the file: the byte at offset o
generateByteAtOffset(o) ==
    ((o % 7) + (o % 11) + (o % 13) + (o % 127) + (o % 251) + (o % 31337) + (o % 1299709)) % 256

\* The bytes of the file in [from, from + n)
FileBytes(from, n) == [i \in 1..n |-> generateByteAtOffset(from + i - 1)]

\* ------------------------------------------------------------------------
\* RandomAccessReader
\* ------------------------------------------------------------------------

DefaultMaxReaders == 256

NoReader == 0

\* err is the error ReadAt returns; derr is the variable err of ReadAt's own
\* scope, the one its deferred function tests
IdleCall == [pc |-> "idle", offset |-> 0, size |-> 0, reader |-> NoReader,
             data |-> <<>>, err |-> "nil", derr |-> "nil"]

RARIdle ==
    /\ Pool = <<>>
    /\ PoolIsNil = FALSE
    /\ MaxReaders = DefaultMaxReaders
    /\ streams = <<>>
    /\ calls = [t \in Threads |-> IdleCall]
    /\ nCalls = 0
    /\ rarFaults = 0

RARInit ==
    /\ Pool = <<>>
    /\ PoolIsNil = FALSE
    /\ MaxReaders \in {SmallPool, DefaultMaxReaders}
    /\ streams = <<>>
    /\ calls = [t \in Threads |-> IdleCall]
    /\ nCalls = 0
    /\ rarFaults = 0

\* Mutant of PoolWithout: the stream handed to the caller stays in the pool
PoolWithout_Keep(k) == Pool

\* A reader over a backend whose streams may fail
RARFaultyInit ==
    /\ Pool = <<>>
    /\ PoolIsNil = FALSE
    /\ MaxReaders \in {SmallPool, DefaultMaxReaders}
    /\ streams = <<>>
    /\ calls = [t \in Threads |-> IdleCall]
    /\ nCalls = 0
    /\ rarFaults = MaxFaults

\* A backend call fails only while the budget of errors lasts
Fails(fault) ==
    /\ fault => rarFaults > 0
    /\ rarFaults' = IF fault THEN rarFaults - 1 ELSE rarFaults

\* The pool without the entry of key k
PoolWithout(k) == [p \in (DOMAIN Pool) \ {k} |-> Pool[p]]

\* The pool with stream r stored under key k
PoolWith(k, r) == [p \in (DOMAIN Pool) \cup {k} |-> IF p = k THEN r ELSE Pool[p]]

\* getReaderFromPool: the keys the call may take for this offset
PoolChoices(offset) ==
    IF offset \in DOMAIN Pool THEN {offset} ELSE DOMAIN Pool

\* ReadAt, first step: getReaderFromPoolOrCreateNew(offset)
ReadAtGetReader(t, offset, size, openFails) ==
    /\ calls[t].pc \in {"idle", "done"}
    /\ nCalls < MaxCalls
    /\ nCalls' = nCalls + 1
    /\ Fails(openFails)
    /\ IF PoolIsNil
       THEN /\ ~openFails
            /\ calls' = [calls EXCEPT ![t] =
                    [pc |-> "done", offset |-> offset, size |-> size,
                     reader |-> NoReader, data |-> <<>>,
                     err |-> "closed", derr |-> "closed"]]
            /\ UNCHANGED <<Pool, streams>>
       ELSE IF DOMAIN Pool = {}
       THEN IF openFails
            THEN /\ calls' = [calls EXCEPT ![t] =
                        [pc |-> "done", offset |-> offset, size |-> size,
                         reader |-> NoReader, data |-> <<>>,
                         err |-> "EIO", derr |-> "EIO"]]
                 /\ UNCHANGED <<Pool, streams>>
            ELSE /\ streams' = Append(streams, [position |-> 0, IsClosed |-> FALSE])
                 /\ calls' = [calls EXCEPT ![t] =
                        [pc |-> "seek", offset |-> offset, size |-> size,
                         reader |-> Len(streams) + 1, data |-> <<>>,
                         err |-> "nil", derr |-> "nil"]]
                 /\ UNCHANGED Pool
       ELSE /\ ~openFails
            /\ \E key \in PoolChoices(offset) :
               /\ calls' = [calls EXCEPT ![t] =
                       [pc |-> "seek", offset |-> offset, size |-> size,
                        reader |-> Pool[key], data |-> <<>>,
                        err |-> "nil", derr |-> "nil"]]
               /\ Pool' = PoolWithout(key)
               /\ UNCHANGED streams
    /\ UNCHANGED <<PoolIsNil, MaxReaders>>
    /\ UNCHANGED OthersRAR

\* Mutant of ReadAtSeek: the stream taken from the pool is not repositioned
ReadAtSeek_NoSeek(t, fault) ==
    /\ calls[t].pc = "seek"
    /\ fault = "none"
    /\ calls' = [calls EXCEPT ![t].pc = "read"]
    /\ UNCHANGED <<Pool, PoolIsNil, MaxReaders, nCalls, streams, rarFaults>>
    /\ UNCHANGED OthersRAR

\* ReadAt, second step: Position() and, when it differs from offset, Seek(offset)
\* (fault: Position fails; Seek fails, and its error is assigned to a variable
\* err declared inside the if block, not to the err the deferred function sees)
ReadAtSeek(t, fault) ==
    LET c == calls[t] IN
    /\ c.pc = "seek"
    /\ Fails(fault # "none")
    /\ fault = "seek" => streams[c.reader].position # c.offset
    /\ streams' = IF fault = "none" /\ streams[c.reader].position # c.offset
                  THEN [streams EXCEPT ![c.reader].position = c.offset]
                  ELSE streams
    /\ calls' = CASE fault = "none" -> [calls EXCEPT ![t].pc = "read"]
                  [] fault = "position" ->
                       [calls EXCEPT ![t].pc = "return", ![t].err = "EIO",
                                     ![t].derr = "EIO"]
                  [] fault = "seek" ->
                       [calls EXCEPT ![t].pc = "return", ![t].err = "EIO"]
    /\ UNCHANGED <<Pool, PoolIsNil, MaxReaders, nCalls>>
    /\ UNCHANGED OthersRAR

\* What one Read of stream r into a buffer of n bytes may return: the number
\* of bytes (a short read is allowed) or end of stream
StreamReadSizes(r, n) ==
    IF streams[r].position >= FileSize \/ n = 0 THEN {0}
    ELSE 1..Min(n, FileSize - streams[r].position)

\* ReadAt, third step: one iteration of io.ReadFull(reader, buffer)
ReadAtRead(t, readFails) ==
    LET c == calls[t]
        r == c.reader
        want == c.size - Len(c.data)
        Failed(e) == [calls EXCEPT ![t].pc = "return", ![t].err = e, ![t].derr = e]
    IN
    /\ c.pc = "read"
    /\ Fails(readFails)
    /\ IF want = 0
       THEN /\ ~readFails
            /\ calls' = [calls EXCEPT ![t].pc = "return"]
            /\ UNCHANGED streams
       ELSE IF streams[r].IsClosed
       THEN /\ ~readFails
            /\ calls' = Failed("stream closed")
            /\ UNCHANGED streams
       ELSE IF readFails
       THEN /\ calls' = Failed("EIO")
            /\ UNCHANGED streams
       ELSE IF streams[r].position >= FileSize
       THEN /\ calls' = Failed(IF Len(c.data) > 0 THEN "ErrUnexpectedEOF" ELSE "EOF")
            /\ UNCHANGED streams
       ELSE \E nr \in StreamReadSizes(r, want) :
            /\ streams' = [streams EXCEPT ![r].position = @ + nr]
            /\ calls' = [calls EXCEPT
                    ![t].data = c.data \o FileBytes(streams[r].position, nr),
                    ![t].pc = IF Len(c.data) + nr = c.size THEN "return" ELSE "read"]
    /\ UNCHANGED <<Pool, PoolIsNil, MaxReaders, nCalls>>
    /\ UNCHANGED OthersRAR

\* returnReaderToPool(reader): the new pool and the streams it closes
ReturnReaderToPool(r, positionFails) ==
    IF PoolIsNil \/ Cardinality(DOMAIN Pool) >= MaxReaders
    THEN /\ ~positionFails
         /\ streams' = [streams EXCEPT ![r].IsClosed = TRUE]
         /\ UNCHANGED Pool
    ELSE IF positionFails
    THEN /\ streams' = [streams EXCEPT ![r].IsClosed = TRUE]
         /\ UNCHANGED Pool
    ELSE LET key == streams[r].position IN
         /\ streams' = IF key \in DOMAIN Pool
                       THEN [streams EXCEPT ![Pool[key]].IsClosed = TRUE]
                       ELSE streams
         /\ Pool' = PoolWith(key, r)

\* ReadAt, last step: the deferred return of the stream to the pool, or its Close
ReadAtReturn(t, positionFails) ==
    LET c == calls[t] IN
    /\ c.pc = "return"
    /\ Fails(positionFails)
    /\ IF c.derr = "nil"
       THEN ReturnReaderToPool(c.reader, positionFails)
       ELSE /\ ~positionFails
            /\ streams' = [streams EXCEPT ![c.reader].IsClosed = TRUE]
            /\ UNCHANGED Pool
    /\ calls' = [calls EXCEPT ![t].pc = "done"]
    /\ UNCHANGED <<PoolIsNil, MaxReaders, nCalls>>
    /\ UNCHANGED OthersRAR

\* Mutant of RARClose: the pool is dropped without closing its streams
RARClose_LeavesOpen ==
    /\ ~PoolIsNil
    /\ Pool' = <<>>
    /\ PoolIsNil' = TRUE
    /\ UNCHANGED <<MaxReaders, streams, calls, nCalls, rarFaults>>
    /\ UNCHANGED OthersRAR

\* randomAccessReaderImpl.Close: closes all pooled streams, Pool = nil
RARClose ==
    /\ ~PoolIsNil
    /\ streams' = [r \in DOMAIN streams |->
                     IF \E k \in DOMAIN Pool : Pool[k] = r
                     THEN [streams[r] EXCEPT !.IsClosed = TRUE]
                     ELSE streams[r]]
    /\ Pool' = <<>>
    /\ PoolIsNil' = TRUE
    /\ UNCHANGED <<MaxReaders, calls, nCalls, rarFaults>>
    /\ UNCHANGED OthersRAR

\* ------------------------------------------------------------------------
\* FileHandleReader: the two-fragment sequential read buffer
\* ------------------------------------------------------------------------

EmptyFragment == [Offset |-> 0, Data |-> <<>>]

IdleReq == [pc |-> "idle", offset |-> 0, size |-> 0, data |-> <<>>, err |-> "nil",
            fileOffset |-> 0, minBytesToRead |-> 0, maxBytesToRead |-> 0,
            seeks |-> 0, holes |-> 0, hits |-> 0]

FHRIdle ==
    /\ fhrOffset = 0
    /\ Buffer1 = EmptyFragment
    /\ Buffer2 = EmptyFragment
    /\ hdfsPosition = 0
    /\ seekRejects = FALSE
    /\ req = IdleReq
    /\ nReqs = 0

FHRInit == FHRIdle

\* A reader over a backend stream that rejects a Seek past the end of the
\* file and stays where it was
FHRRejectingInit ==
    /\ fhrOffset = 0
    /\ Buffer1 = EmptyFragment
    /\ Buffer2 = EmptyFragment
    /\ hdfsPosition = 0
    /\ seekRejects = TRUE
    /\ req = IdleReq
    /\ nReqs = 0

\* FileFragment.ReadFromBuffer: TRUE when the fragment holds the byte at fileOffset
InFragment(frag, fileOffset) ==
    LET start == fileOffset - frag.Offset IN
    start >= 0 /\ start < Len(frag.Data)

\* Mutant of ReadFromBuffer: copies from the start of the fragment
ReadFromBuffer_FromStart(frag, fileOffset, n) ==
    SubSeq(frag.Data, 1, Min(n, Len(frag.Data)))

\* FileFragment.ReadFromBuffer: the bytes copied into a buffer of n bytes
ReadFromBuffer(frag, fileOffset, n) ==
    LET start == fileOffset - frag.Offset
        end == Min(start + n, Len(frag.Data))
    IN SubSeq(frag.Data, start + 1, end)

\* Rounding up to a multiple of BLOCKSIZE
CeilToBlock(n) == ((n + BLOCKSIZE - 1) \div BLOCKSIZE) * BLOCKSIZE

\* FileHandleReader.Read, entry: a kernel request Read(offset, size)
FHRRead(offset, size) ==
    /\ req.pc \in {"idle", "done"}
    /\ nReqs < MaxRequests
    /\ nReqs' = nReqs + 1
    /\ req' = [IdleReq EXCEPT !.pc = IF size > 0 THEN "partial" ELSE "done",
                              !.offset = offset, !.size = size, !.fileOffset = offset]
    /\ UNCHANGED <<fhrOffset, Buffer1, Buffer2, hdfsPosition, seekRejects>>
    /\ UNCHANGED OthersFHR

\* The request after ReadPartial returned nr bytes without error: the loop of
\* Read goes on while the buffer is not full
AfterPartial(r, bytes) ==
    [r EXCEPT !.data = r.data \o bytes,
              !.fileOffset = r.fileOffset + Len(bytes),
              !.pc = IF Len(r.data) + Len(bytes) < r.size THEN "partial" ELSE "done"]

\* The request after ReadPartial returned an error: io.EOF is reported to
\* the kernel as a successful (short) read
AfterError(r, e) ==
    [r EXCEPT !.pc = "done", !.err = IF e = "EOF" THEN "nil" ELSE e]

\* Mutant of IsHole: only a gap of one block is read through
IsHole_OneBlock(fileOffset, offset) ==
    fileOffset > offset /\ fileOffset - offset <= BLOCKSIZE

\* ReadPartial, line 88: the skipped data is read rather than sought over
IsHole(fileOffset, offset) ==
    fileOffset > offset /\ fileOffset - offset <= BLOCKSIZE * 2

\* ReadPartial up to the call of ReadFromBackend: the cache lookup, the swap
\* of the fragments, and the choice between reading a hole and seeking
FHRReadPartial ==
    LET fileOffset == req.fileOffset
        n == req.size - Len(req.data)
    IN
    /\ req.pc = "partial"
    /\ IF InFragment(Buffer1, fileOffset)
       THEN /\ req' = [AfterPartial(req, ReadFromBuffer(Buffer1, fileOffset, n))
                         EXCEPT !.hits = @ + 1]
            /\ UNCHANGED <<fhrOffset, Buffer1, Buffer2, hdfsPosition>>
       ELSE IF InFragment(Buffer2, fileOffset)
       THEN /\ req' = [AfterPartial(req, ReadFromBuffer(Buffer2, fileOffset, n))
                         EXCEPT !.hits = @ + 1]
            /\ UNCHANGED <<fhrOffset, Buffer1, Buffer2, hdfsPosition>>
       ELSE IF fileOffset = fhrOffset
       THEN \* reading at the offset the backend stream is expected to be at
            /\ Buffer2' = Buffer1
            /\ Buffer1' = [Offset |-> fhrOffset, Data |-> <<>>]
            /\ req' = [req EXCEPT !.pc = "backend", !.minBytesToRead = 1,
                                  !.maxBytesToRead = CeilToBlock(n)]
            /\ UNCHANGED <<fhrOffset, hdfsPosition>>
       ELSE IF IsHole(fileOffset, fhrOffset)
       THEN \* a hole: the skipped bytes are read as well
            LET holeSize == fileOffset - fhrOffset IN
            /\ Buffer2' = Buffer1
            /\ Buffer1' = [Offset |-> fhrOffset, Data |-> <<>>]
            /\ req' = [req EXCEPT !.pc = "backend", !.holes = @ + 1,
                                  !.minBytesToRead = holeSize + 1,
                                  !.maxBytesToRead = CeilToBlock(n + holeSize)]
            /\ UNCHANGED <<fhrOffset, hdfsPosition>>
       ELSE \* Seek(fileOffset)
            LET rejected == seekRejects /\ fileOffset > FhrFileSize IN
            /\ hdfsPosition' = IF rejected THEN hdfsPosition ELSE fileOffset
            /\ Buffer2' = Buffer1
            /\ IF rejected /\ fhrOffset > fileOffset
               THEN /\ req' = [AfterError(req, "seek error") EXCEPT !.seeks = @ + 1]
                    /\ Buffer1' = Buffer2
                    /\ UNCHANGED fhrOffset
               ELSE /\ fhrOffset' = fileOffset
                    /\ Buffer1' = [Offset |-> fileOffset, Data |-> <<>>]
                    /\ req' = [req EXCEPT !.pc = "backend", !.seeks = @ + 1,
                                          !.minBytesToRead = 1,
                                          !.maxBytesToRead = CeilToBlock(n)]
    /\ UNCHANGED <<seekRejects, nReqs>>
    /\ UNCHANGED OthersFHR

\* One iteration of the loop of FileFragment.ReadFromBackend (one Read of the
\* backend stream, which may be short) and, when the loop ends, the rest of
\* ReadPartial
FHRReadFromBackend ==
    LET totalRead == Len(Buffer1.Data)
        room == req.maxBytesToRead - totalRead
        n == req.size - Len(req.data)
    IN
    /\ req.pc = "backend"
    /\ IF hdfsPosition >= FhrFileSize
       THEN \* end of stream: ReadPartial returns (0, io.EOF)
            /\ req' = AfterError(req, "EOF")
            /\ UNCHANGED <<fhrOffset, Buffer1, hdfsPosition>>
       ELSE \E nr \in 1..Min(room, FhrFileSize - hdfsPosition) :
            LET frag == [Buffer1 EXCEPT !.Data = @ \o
                            [i \in 1..nr |-> generateByteAtOffset(hdfsPosition + i - 1)]]
            IN
            /\ hdfsPosition' = hdfsPosition + nr
            /\ fhrOffset' = fhrOffset + nr
            /\ Buffer1' = frag
            /\ req' = IF totalRead + nr < req.minBytesToRead
                      THEN req
                      ELSE IF InFragment(frag, req.fileOffset)
                      THEN AfterPartial(req, ReadFromBuffer(frag, req.fileOffset, n))
                      ELSE AfterError(req, "INTERNAL ERROR: FileFragment invariant")
    /\ UNCHANGED <<Buffer2, seekRejects, nReqs>>
    /\ UNCHANGED OthersFHR

FHRNext ==
    \/ \E offset \in 0..(FhrFileSize + 2), size \in 0..MaxReqSize : FHRRead(offset, size)
    \/ FHRReadPartial
    \/ FHRReadFromBackend

RARNext ==
    \/ \E t \in Threads, offset \in 0..FileSize, size \in 0..MaxRead,
          openFails \in BOOLEAN :
          ReadAtGetReader(t, offset, size, openFails)
    \/ \E t \in Threads, fault \in {"none", "position", "seek"} : ReadAtSeek(t, fault)
    \/ \E t \in Threads, readFails \in BOOLEAN : ReadAtRead(t, readFails)
    \/ \E t \in Threads, positionFails \in BOOLEAN : ReadAtReturn(t, positionFails)
    \/ RARClose

\* ------------------------------------------------------------------------
\* RetryPolicy and Op (RetryPolicy.go)
\* ------------------------------------------------------------------------

\* ExpBackoffBase of the default policy, 1.618, in thousandths
ExpBackoffBaseMilli == 1618

\* The errors a backend call returns: nil, io.EOF, fuse.EEXIST, a PathError
\* wrapping os.ErrNotExist, and any other (malignant) error
Errors == {"nil", "EOF", "EEXIST", "ENOENT", "EIO"}

\* Mutant of IsSuccessOrBenignError: only success is passed through
IsSuccessOrBenignError_NilOnly(err) == err = "nil"

\* IsSuccessOrBenignError
IsSuccessOrBenignError(err) == err \in {"nil", "EOF", "EEXIST", "ENOENT"}

IdleOp ==
    [kind |-> "idle", pc |-> "idle", Attempt |-> 0, Expires |-> 0, Delay |-> 0,
     trace |-> <<>>, err |-> "nil", maxAtStart |-> 0, started |-> 0,
     size |-> 0, data |-> <<>>, startOffset |-> 0]

\* RetryPolicy.StartOperation, for a call of the given kind (started and
\* maxAtStart record the clock and the policy at that time)
StartOperation(kind) ==
    [IdleOp EXCEPT !.kind = kind, !.pc = "run", !.Attempt = 1,
                   !.Expires = now + TimeLimit, !.maxAtStart = MaxAttempts,
                   !.started = now]

\* Mutant of CanRetry: one attempt more than MaxAttempts is allowed
CanRetry_OneMore(o) ==
    ~(o.Attempt > MaxAttempts) /\ ~(now > o.Expires)

\* Mutant of CanRetry: no retry is allowed at the deadline itself
CanRetry_BeforeDeadline(o) ==
    ~(o.Attempt >= MaxAttempts) /\ ~(now >= o.Expires)

\* Mutant of CanRetry: the attempts are counted against the MaxAttempts the
\* policy had when the operation started
CanRetry_AtStart(o) ==
    ~(o.Attempt >= o.maxAtStart) /\ ~(now > o.Expires)

\* Op.ShouldRetry, lines 64-72: whether the failed attempt will be retried
CanRetry(o) ==
    ~(o.Attempt >= MaxAttempts) /\ ~(now > o.Expires)

\* Mutant of BackoffDelay: the delay grows without the cap of MaxDelay
BackoffDelay_Uncapped(attempt, delay, minDelay, maxDelay) ==
    IF attempt = 2 THEN minDelay
    ELSE IF attempt > 2 THEN (delay * ExpBackoffBaseMilli) \div 1000
    ELSE delay

\* Op.ShouldRetry, lines 74-81: the delay after the exponential backoff
\* step, for an Op at the given attempt with the given last delay
\* (time.Duration(float64(Delay) * ExpBackoffBase) truncates)
BackoffDelay(attempt, delay, minDelay, maxDelay) ==
    IF attempt = 2 THEN minDelay
    ELSE IF attempt > 2
         THEN Min((delay * ExpBackoffBaseMilli) \div 1000, maxDelay)
         ELSE delay

\* Op.ShouldRetry, lines 74-81, under the shared policy
NextDelay(o) == BackoffDelay(o.Attempt, o.Delay, MinDelay, MaxDelay)

\* Mutant of RandomizedDelays: the randomized delay may exceed the delay
RandomizedDelays_Above(d, minDelay, randomize) ==
    IF randomize /\ d > minDelay THEN minDelay..(d + 1) ELSE {d}

\* Op.ShouldRetry, lines 83-86: the delays the randomization can produce
\* (rand.Float64 is in [0,1), so the delay itself is not reached)
RandomizedDelays(d, minDelay, randomize) ==
    IF randomize /\ d > minDelay THEN minDelay..(d - 1) ELSE {d}

\* Op.ShouldRetry, lines 83-86, under the shared policy
EffectiveDelays(d) == RandomizedDelays(d, MinDelay, RandomizeDelays)

\* One event of a call: a backend invocation with its result, a sleep, a
\* Close of the client or of the stream
Event(ev, err, d, pos, off) == [ev |-> ev, err |-> err, d |-> d, pos |-> pos, off |-> off]

\* Op.ShouldRetry returning true, lines 88-96: Attempt++, sleep of d
Retried(o, d) ==
    [o EXCEPT !.Attempt = o.Attempt + 1, !.Delay = NextDelay(o),
              !.trace = Append(o.trace, Event("sleep", "nil", d, 0, 0))]

\* The call returns err to its caller
Returned(o, err) == [o EXCEPT !.pc = "done", !.err = err]

\* The signal handler of main: stops retries of the shared policy
Signal ==
    /\ MaxAttempts # 0
    /\ MaxAttempts' = 0
    /\ MaxDelay' = 0
    /\ UNCHANGED <<RandomizeDelays, now, op, reader, nOps>>
    /\ UNCHANGED OthersFT

\* Time passes while a call is in flight (once its deadline has passed,
\* more time changes nothing for it)
Tick ==
    /\ op.pc = "run"
    /\ now < MaxTime /\ now <= op.Expires
    /\ now' = now + 1
    /\ UNCHANGED <<MaxAttempts, MaxDelay, RandomizeDelays, op, reader, nOps>>
    /\ UNCHANGED OthersFT

\* The default policy of NewDefaultRetryPolicy, in milliseconds, with the
\* time limit of an hour that the backoff test gives it
DefaultMinDelayMilli == 1000
DefaultMaxDelayMilli == 60000
HourMilli == 3600000

\* The policies: every small MinDelay and MaxDelay (also MinDelay above
\* MaxDelay, which the flags allow), with and without randomization, and
\* the default delays without randomization
BackoffPolicies ==
    [MinDelay : 0..MaxMinDelay, MaxDelay : 0..MaxMaxDelay, RandomizeDelays : BOOLEAN,
     TimeLimit : {BackoffTimeLimit}]
    \cup {[MinDelay |-> DefaultMinDelayMilli, MaxDelay |-> DefaultMaxDelayMilli,
           RandomizeDelays |-> FALSE, TimeLimit |-> HourMilli]}

\* An Op just started on a policy: sleep and prev are the last two sleeps,
\* k counts the ShouldRetry calls and result is what the last one returned
NewBackoff(policy) ==
    [policy |-> policy, MaxAttempts |-> MaxBackoffCalls + 1,
     Attempt |-> 1, Delay |-> 0, Expires |-> policy.TimeLimit, now |-> 0,
     k |-> 0, result |-> TRUE, sleep |-> 0, prev |-> 0]

BackoffIdle == bk = NewBackoff([MinDelay |-> 0, MaxDelay |-> 0, RandomizeDelays |-> FALSE,
                                TimeLimit |-> BackoffTimeLimit])

BackoffInit == \E policy \in BackoffPolicies : bk = NewBackoff(policy)

\* Op.ShouldRetry on bk: refused when the attempts or the time are used up,
\* else the delay is computed, Attempt is incremented and the call sleeps
BackoffShouldRetry ==
    /\ bk.k < MaxBackoffCalls
    /\ IF bk.Attempt >= bk.MaxAttempts \/ bk.now > bk.Expires
       THEN bk' = [bk EXCEPT !.k = @ + 1, !.result = FALSE]
       ELSE LET delay == BackoffDelay(bk.Attempt, bk.Delay, bk.policy.MinDelay,
                                      bk.policy.MaxDelay) IN
            \E d \in RandomizedDelays(delay, bk.policy.MinDelay, bk.policy.RandomizeDelays) :
               bk' = [bk EXCEPT !.k = @ + 1, !.result = TRUE, !.Delay = delay,
                                !.Attempt = @ + 1, !.now = @ + d,
                                !.prev = bk.sleep, !.sleep = d]
    /\ UNCHANGED OthersBackoff

\* Time passes between two ShouldRetry calls (while the backend is tried)
BackoffTick ==
    /\ bk.k < MaxBackoffCalls /\ bk.now <= bk.Expires
    /\ bk.policy.TimeLimit = BackoffTimeLimit
    /\ bk' = [bk EXCEPT !.now = @ + 1]
    /\ UNCHANGED OthersBackoff

BackoffNext == BackoffShouldRetry \/ BackoffTick

\* ------------------------------------------------------------------------
\* FaultTolerantHdfsAccessor (FaultTolerantHdfsAccessor.go)
\* ------------------------------------------------------------------------

AccessorOps ==
    {"EnsureConnected", "OpenRead", "CreateFile", "ReadDir", "Stat", "StatFs",
     "Mkdir", "Remove", "Rename", "Chmod", "Chown"}

\* Mutant of ClosesBeforeRetry: EnsureConnected closes the client as well
ClosesBeforeRetry_All(kind) == kind \in AccessorOps \ {"CreateFile"}

\* The operations whose retry loop calls Impl.Close() before the next attempt
ClosesBeforeRetry(kind) ==
    kind \in {"OpenRead", "ReadDir", "Stat", "StatFs", "Mkdir", "Remove",
              "Rename", "Chmod", "Chown"}

\* NewFaultTolerantHdfsReader: wraps a freshly opened backend stream
NewFaultTolerantHdfsReader ==
    [Impl |-> TRUE, position |-> 0, Offset |-> 0, lastSeek |-> 0, bytesSince |-> 0]

FTIdle ==
    /\ MaxAttempts = PolicyMaxAttempts
    /\ MaxDelay = InitialMaxDelay
    /\ RandomizeDelays = TRUE
    /\ now = 0
    /\ op = IdleOp
    /\ reader = NewFaultTolerantHdfsReader
    /\ nOps = [accessor |-> 0, stream |-> 0]

\* The policy is any of those the flags can configure; the stream was
\* returned by a successful OpenRead
FTInit ==
    /\ MaxAttempts \in 1..PolicyMaxAttempts
    /\ MaxDelay = InitialMaxDelay
    /\ RandomizeDelays \in BOOLEAN
    /\ now = 0
    /\ op = IdleOp
    /\ reader = NewFaultTolerantHdfsReader
    /\ nOps = [accessor |-> 0, stream |-> 0]

\* A call may start when no other is in flight and the stream has not been
\* closed
MayStart(target) ==
    /\ op.pc \in {"idle", "done"}
    /\ op.kind # "Close"
    /\ nOps[target] < (IF target = "accessor" THEN MaxAccessorCalls ELSE MaxStreamCalls)
    /\ now + TimeLimit + InitialMaxDelay <= MaxTime

\* An accessor operation is called: op := RetryPolicy.StartOperation()
\* (CreateFile is passed through and starts no operation).  The accessor is
\* exercised before the stream it returned is.
FTCall(kind) ==
    /\ MayStart("accessor")
    /\ nOps.stream = 0
    /\ op' = StartOperation(kind)
    /\ nOps' = [nOps EXCEPT !.accessor = @ + 1]
    /\ UNCHANGED <<MaxAttempts, MaxDelay, RandomizeDelays, now, reader>>
    /\ UNCHANGED OthersFT

\* One iteration of the loop of an accessor operation: the base operation
\* returns err; the result is returned, or ShouldRetry sleeps and the client
\* is closed before the next attempt
FTAttempt(err) ==
    /\ op.pc = "run" /\ op.kind \in AccessorOps
    /\ LET o == [op EXCEPT !.trace = Append(op.trace, Event("attempt", err, 0, 0, 0))] IN
       IF op.kind = "CreateFile" \/ IsSuccessOrBenignError(err) \/ ~CanRetry(o)
       THEN /\ op' = Returned(o, err)
            /\ reader' = IF op.kind = "OpenRead" /\ err = "nil"
                         THEN NewFaultTolerantHdfsReader ELSE reader
            /\ now' = now
       ELSE \E d \in EffectiveDelays(NextDelay(o)) :
            /\ op' = IF ClosesBeforeRetry(op.kind)
                     THEN [Retried(o, d) EXCEPT
                             !.trace = Append(Retried(o, d).trace,
                                              Event("Close", "nil", 0, 0, 0))]
                     ELSE Retried(o, d)
            /\ now' = now + d
            /\ reader' = reader
    /\ UNCHANGED <<MaxAttempts, MaxDelay, RandomizeDelays, nOps>>
    /\ UNCHANGED OthersFT

\* ------------------------------------------------------------------------
\* FaultTolerantHdfsReader (FaultTolerantHdfsReader.go)
\* ------------------------------------------------------------------------

\* Read(buffer) is called with a buffer of size bytes
FTRRead(size) ==
    /\ MayStart("stream")
    /\ op' = [StartOperation("Read") EXCEPT !.size = size, !.startOffset = reader.Offset]
    /\ nOps' = [nOps EXCEPT !.stream = @ + 1]
    /\ UNCHANGED <<MaxAttempts, MaxDelay, RandomizeDelays, now, reader>>
    /\ UNCHANGED OthersFT

\* Mutant of AfterReopen: the reopened stream is left at its start
AfterReopen_NoSeek(r) == [r EXCEPT !.Impl = TRUE, !.position = 0]

\* Read, lines 27 and 36: the stream is reopened and sought to Offset
AfterReopen(r) == [r EXCEPT !.Impl = TRUE, !.position = r.Offset]

\* Read, lines 25-42: Impl is absent; HdfsAccessor.OpenRead returns openErr
\* and, when it succeeded, Seek(Offset) succeeds or not
FTRReopen(openErr, seekOk) ==
    /\ op.pc = "run" /\ op.kind = "Read" /\ ~reader.Impl
    /\ LET o == [op EXCEPT !.trace = Append(op.trace,
                                 Event("open", openErr, 0, 0, reader.Offset))] IN
       IF openErr # "nil"
       THEN IF CanRetry(o)
            THEN \E d \in EffectiveDelays(NextDelay(o)) :
                 /\ op' = Retried(o, d)
                 /\ now' = now + d
                 /\ reader' = reader
            ELSE /\ op' = Returned(o, openErr)
                 /\ UNCHANGED <<now, reader>>
       ELSE IF seekOk
            THEN /\ op' = o
                 /\ reader' = AfterReopen(reader)
                 /\ now' = now
            ELSE /\ op' = Returned([o EXCEPT !.trace = Append(o.trace,
                                       Event("Close", "nil", 0, 0, 0))], "EIO")
                 /\ UNCHANGED <<now, reader>>
    /\ UNCHANGED <<MaxAttempts, MaxDelay, RandomizeDelays, nOps>>
    /\ UNCHANGED OthersFT

\* The results Impl.Read can produce on a buffer of n bytes: a malignant
\* error with no bytes, end of stream, or 1..n of the bytes that remain
BackendReads(r, n) ==
    {[nr |-> 0, err |-> "EIO"]} \cup
    (IF n = 0 THEN {[nr |-> 0, err |-> "nil"]}
     ELSE IF r.position >= FtFileSize THEN {[nr |-> 0, err |-> "EOF"]}
     ELSE {[nr |-> k, err |-> "nil"] : k \in 1..Min(n, FtFileSize - r.position)})

\* Read, lines 43-57: Impl.Read returns res; the result is returned (and a
\* success advances Offset), or ShouldRetry sleeps and the stream is closed
\* and dropped
FTRReadAttempt(res) ==
    /\ op.pc = "run" /\ op.kind = "Read" /\ reader.Impl
    /\ res \in BackendReads(reader, op.size)
    /\ LET o == [op EXCEPT !.trace = Append(op.trace,
                     Event("attempt", res.err, 0, reader.position, reader.Offset))] IN
       IF IsSuccessOrBenignError(res.err) \/ ~CanRetry(o)
       THEN /\ op' = [Returned(o, res.err) EXCEPT
                         !.data = FileBytes(reader.position, res.nr)]
            /\ reader' = IF res.err = "nil"
                         THEN [reader EXCEPT !.position = reader.position + res.nr,
                                             !.Offset = reader.Offset + res.nr,
                                             !.bytesSince = reader.bytesSince + res.nr]
                         ELSE reader
            /\ now' = now
       ELSE \E d \in EffectiveDelays(NextDelay(o)) :
            /\ op' = [Retried(o, d) EXCEPT
                         !.trace = Append(Retried(o, d).trace,
                                          Event("Close", "nil", 0, 0, 0))]
            /\ now' = now + d
            /\ reader' = [reader EXCEPT !.Impl = FALSE]
    /\ UNCHANGED <<MaxAttempts, MaxDelay, RandomizeDelays, nOps>>
    /\ UNCHANGED OthersFT

\* Seek(pos): passed to Impl.Seek, which the backend may reject past the end
\* of the file; Offset follows on success.  With Impl absent the call
\* dereferences nil.
FTRSeek(pos, seekOk) ==
    /\ MayStart("stream")
    /\ seekOk \/ pos > FtFileSize
    /\ nOps' = [nOps EXCEPT !.stream = @ + 1]
    /\ IF ~reader.Impl
       THEN /\ op' = [IdleOp EXCEPT !.kind = "Seek", !.pc = "panic"]
            /\ reader' = reader
       ELSE IF seekOk
       THEN /\ op' = [IdleOp EXCEPT !.kind = "Seek", !.pc = "done"]
            /\ reader' = [reader EXCEPT !.position = pos, !.Offset = pos,
                                        !.lastSeek = pos, !.bytesSince = 0]
       ELSE /\ op' = [IdleOp EXCEPT !.kind = "Seek", !.pc = "done", !.err = "EIO"]
            /\ reader' = reader
    /\ UNCHANGED <<MaxAttempts, MaxDelay, RandomizeDelays, now>>
    /\ UNCHANGED OthersFT

\* Close(): this.Impl.Close() closes the wrapped stream; with Impl absent
\* the call dereferences nil
FTRClose ==
    /\ MayStart("stream")
    /\ nOps' = [nOps EXCEPT !.stream = @ + 1]
    /\ op' = IF ~reader.Impl
             THEN [IdleOp EXCEPT !.kind = "Close", !.pc = "panic"]
             ELSE [IdleOp EXCEPT !.kind = "Close", !.pc = "done",
                                 !.trace = <<Event("Close", "nil", 0, 0, 0)>>]
    /\ UNCHANGED <<MaxAttempts, MaxDelay, RandomizeDelays, now, reader>>
    /\ UNCHANGED OthersFT

FTNext ==
    \/ \E kind \in AccessorOps : FTCall(kind)
    \/ \E err \in Errors : FTAttempt(err)
    \/ \E size \in 0..MaxFtRead : FTRRead(size)
    \/ \E openErr \in {"nil", "ENOENT", "EIO"}, seekOk \in BOOLEAN : FTRReopen(openErr, seekOk)
    \/ \E res \in [nr : 0..MaxFtRead, err : {"nil", "EOF", "EIO"}] : FTRReadAttempt(res)
    \/ \E pos \in 0..(FtFileSize + 1), seekOk \in BOOLEAN : FTRSeek(pos, seekOk)
    \/ FTRClose
    \/ Signal
    \/ Tick

\* ------------------------------------------------------------------------
\* FileHandleWriter (unnamed/part_009)
\* ------------------------------------------------------------------------

\* The values of the bytes the kernel writes (0 is what a hole reads as)
ByteValues == {1, 2}

\* The data of a write request
WriteData == UNION {[1..n -> ByteValues] : n \in 1..MaxWriteLen}

\* os.File.WriteAt: the file after data is written at offset; a gap between
\* the end of the file and offset reads as zeros
WriteAt(file, data, offset) ==
    [i \in 1..Max(Len(file), offset + Len(data)) |->
        IF i > offset /\ i <= offset + Len(data) THEN data[i - offset]
        ELSE IF i <= Len(file) THEN file[i]
        ELSE 0]

\* What is kept of a fuse.WriteRequest and of the answer of StatFs while it
\* was served: the size of the data, and where the offset stood against the
\* remaining capacity ("unknown" when StatFs failed)
WriteRequest(offset, data, statFsOk, remaining) ==
    [size |-> Len(data),
     capacity |-> IF ~statFsOk THEN "unknown"
                  ELSE IF offset > remaining THEN "above"
                  ELSE IF offset = remaining THEN "at"
                  ELSE "below"]

NoWriteRequest == WriteRequest(0, <<>>, FALSE, 0)

\* Mutant of IsTooLarge: a write at the remaining capacity is accepted
IsTooLarge_Above(offset, remaining) == offset > remaining

\* Write, line 85: the offset is not below the remaining capacity
IsTooLarge(offset, remaining) == offset >= remaining

\* After NewFileHandleWriter(handle, newFile = true): the file was removed
\* and created empty on the store, the staging file is empty
WriterIdle ==
    /\ stagingFile = <<>>
    /\ writer = [BytesWritten |-> 0, pc |-> "idle", last |-> "none", err |-> "nil",
                 op |-> IdleOp, closes |-> 0, req |-> NoWriteRequest]
    /\ store = [exists |-> TRUE, data |-> <<>>]
    /\ nWriterReqs = [write |-> 0, flush |-> 0]

WriterInit == WriterIdle

\* Write: StatFs fails (logged only) or reports the remaining space; the
\* request is refused when its offset is not below it, else the data goes to
\* the staging file
WriterWrite(offset, data, statFsOk, remaining) ==
    /\ writer.pc = "idle"
    /\ nWriterReqs.write < MaxWrites
    /\ nWriterReqs' = [nWriterReqs EXCEPT !.write = @ + 1]
    /\ IF statFsOk /\ IsTooLarge(offset, remaining)
       THEN /\ writer' = [writer EXCEPT !.last = "Write", !.err = "Too large file",
                                        !.req = WriteRequest(offset, data, statFsOk, remaining)]
            /\ stagingFile' = stagingFile
       ELSE /\ stagingFile' = WriteAt(stagingFile, data, offset)
            /\ writer' = [writer EXCEPT !.last = "Write", !.err = "nil",
                                        !.BytesWritten = @ + Len(data),
                                        !.req = WriteRequest(offset, data, statFsOk, remaining)]
    /\ UNCHANGED store
    /\ UNCHANGED OthersWriter

\* Flush, lines 100-109: nothing to do when BytesWritten is 0; otherwise
\* BytesWritten is reset and the retry operation is started
WriterFlush ==
    /\ writer.pc = "idle"
    /\ nWriterReqs.flush < MaxFlushes
    /\ nWriterReqs' = [nWriterReqs EXCEPT !.flush = @ + 1]
    /\ IF writer.BytesWritten = 0
       THEN writer' = [writer EXCEPT !.last = "Flush", !.err = "nil"]
       ELSE writer' = [writer EXCEPT !.BytesWritten = 0, !.pc = "flush",
                                     !.op = StartOperation("Flush"), !.closes = 0]
    /\ UNCHANGED <<stagingFile, store>>
    /\ UNCHANGED OthersWriter

\* The points at which an attempt to flush can fail
FlushFaults == {"none", "remove", "create", "write", "close"}

\* The errors a failing call of an attempt returns: io.EOF on a broken
\* connection, or another (malignant) error
FlushErrors == {"EOF", "EIO"}

\* FlushAttempt: Remove (its error is ignored), CreateFile, the staging file
\* streamed to the store, Close.  The result is the file on the store and the
\* error returned; k is the number of bytes that got through before a write
\* failed with the error e.
FlushAttempt(fault, k, e) ==
    CASE fault = "none"   -> [store |-> [exists |-> TRUE, data |-> stagingFile], err |-> "nil"]
      [] fault = "remove" -> [store |-> store, err |-> e]
      [] fault = "create" -> [store |-> [exists |-> FALSE, data |-> <<>>], err |-> e]
      [] fault = "write"  -> [store |-> [exists |-> TRUE, data |-> SubSeq(stagingFile, 1, k)],
                              err |-> e]
      [] fault = "close"  -> [store |-> [exists |-> TRUE, data |-> stagingFile], err |-> e]

\* Flush, line 112: whether the result of the attempt is returned
FlushReturns(err, o) ==
    err # "EOF" \/ IsSuccessOrBenignError(err) \/ ~CanRetry(o)

\* Flush, lines 110-118: one attempt; its result is returned, or the client
\* is closed and the attempt repeated
WriterFlushAttempt(fault, k, e) ==
    /\ writer.pc = "flush"
    /\ k < Len(stagingFile) \/ (k = 0 /\ fault # "write")
    /\ fault = "none" => e = "EIO"
    /\ LET res == FlushAttempt(fault, k, e) IN
       /\ store' = res.store
       /\ IF FlushReturns(res.err, writer.op)
          THEN /\ writer' = [writer EXCEPT !.pc = "idle", !.last = "Flush", !.err = res.err]
               /\ now' = now
          ELSE \E d \in EffectiveDelays(NextDelay(writer.op)) :
               /\ writer' = [writer EXCEPT !.op = Retried(writer.op, d), !.closes = @ + 1]
               /\ now' = now + d
    /\ UNCHANGED <<stagingFile, nWriterReqs>>
    /\ UNCHANGED <<MaxAttempts, MaxDelay, RandomizeDelays, op, reader, nOps>>
    /\ UNCHANGED OthersWriterAndFT

WriterNext ==
    \/ \E offset \in 0..MaxWriteOffset, data \in WriteData, statFsOk \in BOOLEAN,
          remaining \in 0..(MaxWriteOffset + 1) :
          WriterWrite(offset, data, statFsOk, remaining)
    \/ WriterFlush
    \/ \E fault \in FlushFaults, k \in 0..(MaxWriteOffset + MaxWriteLen), e \in FlushErrors :
          WriterFlushAttempt(fault, k, e)

\* ------------------------------------------------------------------------
\* Dir, File and the attribute cache (unnamed/part_002, File.go)
\* ------------------------------------------------------------------------

\* The names the store can hold in the directory, and the names of the
\* virtual archive roots next to them
Names == {"a", "x.zip"}
ArchiveNames == {"x.zip@"}
AllNames == Names \cup ArchiveNames

\* strings.HasSuffix(name, ".zip") and strings.HasSuffix(name, ".zip@")
HasZipSuffix(name) == name = "x.zip"
HasZipAtSuffix(name) == name = "x.zip@"
\* name[:len(name)-1] for an archive root name, and name + "@"
ZipFileName(name) == IF name = "x.zip@" THEN "x.zip" ELSE name
ArchiveRootName(name) == IF name = "x.zip" THEN "x.zip@" ELSE name

\* The zero time.Time of attributes that carry no expiry: before every clock value
ZeroTime == 0 - 1
\* No node (a nil fs.Node)
NoNode == 0

\* The characters of a name or of a configured prefix
Chars(name) ==
    CASE name = "a" -> <<"a">>
      [] name = "x.zip" -> <<"x", ".", "z", "i", "p">>
      [] name = "x.zip@" -> <<"x", ".", "z", "i", "p", "@">>
      [] name = "baz/qux" -> <<"baz", "/", "qux">>
      [] OTHER -> <<name>>

\* strings.HasPrefix
HasPrefix(s, prefix) == Len(prefix) <= Len(s) /\ SubSeq(s, 1, Len(prefix)) = prefix

\* Dir.AbsolutePathForChild of the root directory
AbsolutePathForChild(name) == <<"/">> \o Chars(name)

\* FileSystem.IsPathAllowed, the body of the loop over the prefixes
PrefixAdmits(prefix, path) ==
    \/ prefix = "*"
    \/ LET p == <<"/">> \o Chars(prefix) IN
       p = path \/ HasPrefix(path, p \o <<"/">>)

\* FileSystem.IsPathAllowed for a child of the root directory
IsPathAllowed(name) ==
    LET path == AbsolutePathForChild(name) IN
    path = <<"/">> \/ \E prefix \in AllowedPrefixes : PrefixAdmits(prefix, path)

\* Attrs of a node: Name, directory flag, Mode, Expires; obtainedAt records
\* when the store last supplied them (ZeroTime when it did not)
NewAttrs(name, isDir, mode, expires, obtainedAt) ==
    [Name |-> name, isDir |-> isDir, Mode |-> mode, Expires |-> expires,
     obtainedAt |-> obtainedAt]

\* HdfsAccessor.Stat of path.Join("/", name): fails, reports that the path is
\* missing, or returns its attributes (AttrsFromFileInfo sets no expiry); an
\* empty name makes it the path of the directory itself
Stat(name, ok) ==
    IF ~ok THEN [err |-> "EIO", attrs |-> NewAttrs("", FALSE, 0, ZeroTime, ZeroTime)]
    ELSE IF name = ""
    THEN [err |-> "nil", attrs |-> NewAttrs("", TRUE, 0, ZeroTime, clock)]
    ELSE IF name \in Names /\ hdfs[name].exists
    THEN [err |-> "nil",
          attrs |-> NewAttrs(name, hdfs[name].isDir, hdfs[name].mode, ZeroTime, clock)]
    ELSE [err |-> "ENOENT", attrs |-> NewAttrs("", FALSE, 0, ZeroTime, ZeroTime)]

\* Dir.LookupAttrs: the attributes are overwritten with what Stat returned,
\* also when it failed; on success they expire one TTL from now
LookupAttrs(name, ok) ==
    LET r == Stat(name, ok) IN
    IF r.err # "nil" THEN r
    ELSE [r EXCEPT !.attrs.Expires = clock + AttrTTL]

\* Mutant of EntriesSet: the node is not recorded
EntriesSet_Forget(entries, name, id) == entries

\* Dir.EntriesSet
EntriesSet(entries, name, id) == [entries EXCEPT ![name] = id]

\* Dir.EntriesRemove
EntriesRemove(entries, name) == [entries EXCEPT ![name] = NoNode]

\* Dir.NodeFromAttrs on the cache c = [Entries, nodes]: a new File or Dir
\* node with these attributes is created and recorded under its name
NodeFromAttrs(c, attrs) ==
    LET id == Len(c.nodes) + 1 IN
    [Entries |-> EntriesSet(c.Entries, attrs.Name, id),
     nodes |-> Append(c.nodes, [kind |-> IF attrs.isDir THEN "Dir" ELSE "File",
                                Attrs |-> attrs]),
     node |-> id]

\* Dir.Lookup for a name that is not expanded as an archive root (lines
\* 95-101 and 121-126): the result with the cache after it and the number of
\* calls made to the store
LookupNode(c, name, statOk) ==
    IF ~IsPathAllowed(name)
    THEN [c |-> c, node |-> NoNode, err |-> "ENOENT", calls |-> 0]
    ELSE IF c.Entries[name] # NoNode
    THEN [c |-> c, node |-> c.Entries[name], err |-> "nil", calls |-> 0]
    ELSE LET r == LookupAttrs(name, statOk) IN
         IF r.err # "nil"
         THEN [c |-> c, node |-> NoNode, err |-> r.err, calls |-> 1]
         ELSE LET n == NodeFromAttrs(c, r.attrs) IN
              [c |-> [Entries |-> n.Entries, nodes |-> n.nodes],
               node |-> n.node, err |-> "nil", calls |-> 1]

\* Dir.Lookup, lines 103-119: the archive root of a zip file is a new ZipDir
\* made from the attributes of the file's node
LookupArchiveRoot(c, name, statOk) ==
    LET base == LookupNode(c, ZipFileName(name), statOk) IN
    IF base.err # "nil" THEN base
    ELSE IF base.c.nodes[base.node].kind # "File"
    THEN [base EXCEPT !.node = NoNode, !.err = "ENOENT"]
    ELSE LET attrs == [base.c.nodes[base.node].Attrs EXCEPT !.Name = name, !.isDir = TRUE]
             all == Append(base.c.nodes, [kind |-> "ZipDir", Attrs |-> attrs])
         IN [base EXCEPT !.c.nodes = all, !.node = Len(all)]

\* Dir.Lookup
Lookup(c, name, statOk) ==
    IF ~IsPathAllowed(name)
    THEN [c |-> c, node |-> NoNode, err |-> "ENOENT", calls |-> 0]
    ELSE IF c.Entries[name] # NoNode
    THEN [c |-> c, node |-> c.Entries[name], err |-> "nil", calls |-> 0]
    ELSE IF ExpandZips /\ HasZipAtSuffix(name)
    THEN LookupArchiveRoot(c, name, statOk)
    ELSE LookupNode(c, name, statOk)

IdleDirResult ==
    [op |-> "none", name |-> "", node |-> NoNode, err |-> "nil", calls |-> 0,
     at |-> 0, before |-> NewAttrs("", FALSE, 0, ZeroTime, ZeroTime),
     mode |-> 0, listing |-> {}, wasListed |-> FALSE, prevNode |-> NoNode,
     newName |-> ""]

\* The root directory of a mounted file system: nothing cached yet; the
\* store holds a directory "a" and a file "x.zip"
DirIdle ==
    /\ AllowedPrefixes = {"*"}
    /\ ExpandZips = FALSE
    /\ hdfs = [n \in Names |-> [exists |-> TRUE, isDir |-> n = "a", mode |-> 0]]
    /\ Entries = [n \in AllNames |-> NoNode]
    /\ nodes = <<>>
    /\ clock = 0
    /\ dres = IdleDirResult
    /\ listed = {}
    /\ nDirOps = 0

DirInit ==
    /\ AllowedPrefixes \in {{"*"}, {"x.zip"}}
    /\ ExpandZips \in BOOLEAN
    /\ hdfs = [n \in Names |-> [exists |-> TRUE, isDir |-> n = "a", mode |-> 0]]
    /\ Entries = [n \in AllNames |-> NoNode]
    /\ nodes = <<>>
    /\ clock = 0
    /\ dres = IdleDirResult
    /\ listed = {}
    /\ nDirOps = 0

\* A FUSE request may be served
DirMayStart == nDirOps < MaxDirOps

\* Dir.Lookup(name)
DirLookup(name, statOk) ==
    /\ DirMayStart
    /\ nDirOps' = nDirOps + 1
    /\ LET r == Lookup([Entries |-> Entries, nodes |-> nodes], name, statOk) IN
       /\ Entries' = r.c.Entries
       /\ nodes' = r.c.nodes
       /\ dres' = [IdleDirResult EXCEPT
                     !.op = "Lookup", !.name = name, !.node = r.node, !.err = r.err,
                     !.calls = r.calls, !.at = clock, !.wasListed = name \in listed,
                     !.prevNode = IF dres.op = "Lookup" /\ dres.name = name /\ dres.err = "nil"
                                  THEN dres.node ELSE NoNode]
    /\ UNCHANGED <<AllowedPrefixes, ExpandZips, hdfs, clock, listed>>
    /\ UNCHANGED OthersDir

\* ReadDir of the store as AttrsFromFileInfo returns it: the names present,
\* in the order of the listing
NameOrder == <<"a", "x.zip">>

RECURSIVE ReadDirNodes(_, _)
\* Dir.ReadDirAll, lines 140-162: for the entries from position i on, a node
\* is created and recorded for each entry the prefix gate allows
ReadDirNodes(c, i) ==
    IF i > Len(NameOrder) THEN c
    ELSE LET name == NameOrder[i] IN
         IF hdfs[name].exists /\ IsPathAllowed(name)
         THEN LET n == NodeFromAttrs(c, NewAttrs(name, hdfs[name].isDir, hdfs[name].mode,
                                                 ZeroTime, clock))
              IN ReadDirNodes([Entries |-> n.Entries, nodes |-> n.nodes], i + 1)
         ELSE ReadDirNodes(c, i + 1)

\* Dir.ReadDirAll, lines 143-159: the names of the directory entries returned
ReadDirListing ==
    LET shown == {n \in Names : hdfs[n].exists /\ IsPathAllowed(n)} IN
    shown \cup {ArchiveRootName(n) : n \in {m \in shown :
                    ExpandZips /\ ~hdfs[m].isDir /\ HasZipSuffix(m)}}

\* Dir.ReadDirAll
DirReadDirAll(ok) ==
    /\ DirMayStart
    /\ nDirOps' = nDirOps + 1
    /\ IF ok
       THEN LET c == ReadDirNodes([Entries |-> Entries, nodes |-> nodes], 1) IN
            /\ Entries' = c.Entries
            /\ nodes' = c.nodes
            /\ listed' = ReadDirListing
            /\ dres' = [IdleDirResult EXCEPT !.op = "ReadDirAll", !.calls = 1, !.at = clock,
                                             !.listing = ReadDirListing]
       ELSE /\ dres' = [IdleDirResult EXCEPT !.op = "ReadDirAll", !.calls = 1, !.at = clock,
                                             !.err = "EIO"]
            /\ UNCHANGED <<Entries, nodes, listed>>
    /\ UNCHANGED <<AllowedPrefixes, ExpandZips, hdfs, clock>>
    /\ UNCHANGED OthersDir

\* Dir.Attr and File.Attr of a child node (ZipDir.Attr returns its
\* attributes as they are): expired attributes are re-read through the parent
DirAttr(id, statOk) ==
    /\ DirMayStart
    /\ id \in DOMAIN nodes
    /\ nDirOps' = nDirOps + 1
    /\ LET node == nodes[id]
           expired == node.kind # "ZipDir" /\ clock > node.Attrs.Expires
           r == LookupAttrs(node.Attrs.Name, statOk)
       IN
       /\ nodes' = IF expired THEN [nodes EXCEPT ![id].Attrs = r.attrs] ELSE nodes
       /\ dres' = [IdleDirResult EXCEPT
                     !.op = "Attr", !.name = node.Attrs.Name, !.node = id, !.at = clock,
                     !.before = node.Attrs,
                     !.calls = IF expired THEN 1 ELSE 0,
                     !.err = IF expired THEN r.err ELSE "nil",
                     !.mode = IF expired THEN r.attrs.Mode ELSE node.Attrs.Mode]
    /\ UNCHANGED <<AllowedPrefixes, ExpandZips, hdfs, Entries, clock, listed>>
    /\ UNCHANGED OthersDir

\* The names that stop being served from the cache when name is evicted
Evicted(name) == {name, ArchiveRootName(name)}

\* Dir.Remove(name): the entry is evicted when the store removed the path
DirRemove(name, ok) ==
    /\ DirMayStart
    /\ nDirOps' = nDirOps + 1
    /\ IF ok /\ hdfs[name].exists
       THEN /\ hdfs' = [hdfs EXCEPT ![name].exists = FALSE]
            /\ Entries' = EntriesRemove(Entries, name)
            /\ listed' = listed \ Evicted(name)
            /\ dres' = [IdleDirResult EXCEPT !.op = "Remove", !.name = name, !.calls = 1,
                                             !.at = clock]
       ELSE /\ dres' = [IdleDirResult EXCEPT !.op = "Remove", !.name = name, !.calls = 1,
                                             !.at = clock, !.err = "EIO"]
            /\ UNCHANGED <<hdfs, Entries, listed>>
    /\ UNCHANGED <<AllowedPrefixes, ExpandZips, nodes, clock>>
    /\ UNCHANGED OthersDir

\* Dir.Rename(oldName, newName) within the directory: the old entry is
\* evicted when the store renamed the path
DirRename(oldName, newName, ok) ==
    /\ DirMayStart
    /\ oldName # newName
    /\ nDirOps' = nDirOps + 1
    /\ IF ok /\ hdfs[oldName].exists /\ ~hdfs[newName].exists
       THEN /\ hdfs' = [hdfs EXCEPT ![newName] = hdfs[oldName], ![oldName].exists = FALSE]
            /\ Entries' = EntriesRemove(Entries, oldName)
            /\ listed' = listed \ (Evicted(oldName) \cup Evicted(newName))
            /\ dres' = [IdleDirResult EXCEPT !.op = "Rename", !.name = oldName, !.calls = 1,
                                             !.at = clock, !.newName = newName]
       ELSE /\ dres' = [IdleDirResult EXCEPT !.op = "Rename", !.name = oldName, !.calls = 1,
                                             !.at = clock, !.err = "EIO",
                                             !.newName = newName]
            /\ UNCHANGED <<hdfs, Entries, listed>>
    /\ UNCHANGED <<AllowedPrefixes, ExpandZips, nodes, clock>>
    /\ UNCHANGED OthersDir

\* Dir.Mkdir(name): a new Dir node is recorded when the store made the
\* directory
DirMkdir(name, ok) ==
    /\ DirMayStart
    /\ nDirOps' = nDirOps + 1
    /\ IF ok /\ ~hdfs[name].exists
       THEN LET n == NodeFromAttrs([Entries |-> Entries, nodes |-> nodes],
                                   NewAttrs(name, TRUE, 0, ZeroTime, ZeroTime)) IN
            /\ hdfs' = [hdfs EXCEPT ![name] = [exists |-> TRUE, isDir |-> TRUE, mode |-> 0]]
            /\ Entries' = n.Entries
            /\ nodes' = n.nodes
            /\ dres' = [IdleDirResult EXCEPT !.op = "Mkdir", !.name = name, !.calls = 1,
                                             !.at = clock, !.node = n.node]
       ELSE /\ dres' = [IdleDirResult EXCEPT !.op = "Mkdir", !.name = name, !.calls = 1,
                                             !.at = clock, !.err = "EIO"]
            /\ UNCHANGED <<hdfs, Entries, nodes>>
    /\ UNCHANGED <<AllowedPrefixes, ExpandZips, clock, listed>>
    /\ UNCHANGED OthersDir

\* The outcomes of FileHandle.EnableWrite(true) under Dir.Create: the new
\* file is made in the store and staged, CreateFile fails, or the staging
\* file cannot be made after the file was created
CreateFaults == {"none", "create", "stage"}

\* Dir.Create(name): the File node is recorded first, then the handle is
\* enabled for writing (NewFileHandleWriter removes the path, ignoring the
\* outcome, creates the file and makes the staging file)
DirCreate(name, removeOk, fault) ==
    /\ DirMayStart
    /\ nDirOps' = nDirOps + 1
    /\ LET n == NodeFromAttrs([Entries |-> Entries, nodes |-> nodes],
                              NewAttrs(name, FALSE, 0, ZeroTime, ZeroTime))
           removed == IF removeOk THEN [hdfs EXCEPT ![name].exists = FALSE] ELSE hdfs
       IN
       /\ Entries' = n.Entries
       /\ nodes' = n.nodes
       /\ hdfs' = IF fault # "create" /\ ~removed[name].exists
                  THEN [removed EXCEPT ![name] = [exists |-> TRUE, isDir |-> FALSE, mode |-> 0]]
                  ELSE removed
       /\ dres' = [IdleDirResult EXCEPT
                     !.op = "Create", !.name = name, !.calls = 2, !.at = clock,
                     !.node = IF fault = "none" /\ ~removed[name].exists THEN n.node ELSE NoNode,
                     !.err = IF fault = "none" /\ ~removed[name].exists THEN "nil" ELSE "EIO"]
    /\ UNCHANGED <<AllowedPrefixes, ExpandZips, clock, listed>>
    /\ UNCHANGED OthersDir

\* Clock: time passes
DirTick ==
    /\ clock < MaxClock
    /\ clock' = clock + 1
    /\ UNCHANGED <<AllowedPrefixes, ExpandZips, hdfs, Entries, nodes, dres, listed, nDirOps>>
    /\ UNCHANGED OthersDir

\* Another client of the store changes the mode of a path (0757 to 0555 in
\* the attribute caching test)
StoreChmod(name) ==
    /\ hdfs[name].exists /\ hdfs[name].mode = 0
    /\ hdfs' = [hdfs EXCEPT ![name].mode = 1]
    /\ UNCHANGED <<AllowedPrefixes, ExpandZips, Entries, nodes, clock, dres, listed, nDirOps>>
    /\ UNCHANGED OthersDir

DirNext ==
    \/ \E name \in AllNames, statOk \in BOOLEAN : DirLookup(name, statOk)
    \/ \E ok \in BOOLEAN : DirReadDirAll(ok)
    \/ \E id \in 1..(MaxDirOps * 2), statOk \in BOOLEAN : DirAttr(id, statOk)
    \/ \E name \in Names, ok \in BOOLEAN : DirRemove(name, ok)
    \/ \E oldName \in Names, newName \in Names, ok \in BOOLEAN : DirRename(oldName, newName, ok)
    \/ \E name \in Names, ok \in BOOLEAN : DirMkdir(name, ok)
    \/ \E name \in Names, removeOk \in BOOLEAN, fault \in CreateFaults :
          DirCreate(name, removeOk, fault)
    \/ DirTick
    \/ StoreChmod("a")

\* ------------------------------------------------------------------------
\* ZipDir: the tree of an expanded archive (unnamed/part_007)
\* ------------------------------------------------------------------------

\* The names of the files and directories inside an archive
ZipNames == {"d", "f"}

\* The paths of at most n components
ZipPaths(n) == UNION {[1..k -> ZipNames] : k \in 1..n}

\* strings.Split(zipFile.Name, "/") of the entries an archive can hold: a
\* file entry c1/.../cn gives its components, a directory entry c1/.../cn/
\* gives them followed by an empty one
ZipEntryNames ==
    ZipPaths(MaxZipDepth) \cup {p \o <<"">> : p \in ZipPaths(MaxZipDepth - 1)}

IsDirEntry(name) == name[Len(name)] = ""

\* The path an entry names, without the empty component of a directory entry
EntryPath(name) == IF IsDirEntry(name) THEN SubSeq(name, 1, Len(name) - 1) ELSE name

IsPathPrefix(p, q) == Len(p) <= Len(q) /\ SubSeq(q, 1, Len(p)) = p

\* The archives: entries with different names in any order, where no file
\* is at the same time a directory on the path of another entry; the
\* uncompressed size of a file entry is its position in the archive
\* (different for each entry) and that of a directory entry is 0
ZipArchives ==
    LET names == UNION {[1..k -> ZipEntryNames] : k \in 1..MaxZipEntries} IN
    {[i \in DOMAIN a |-> [Name |-> a[i], Size |-> IF IsDirEntry(a[i]) THEN 0 ELSE i]] :
       a \in {b \in names :
                 \A i, j \in DOMAIN b :
                    i # j => /\ b[i] # b[j]
                             /\ ~IsDirEntry(b[i]) =>
                                   ~IsPathPrefix(b[i], EntryPath(b[j]))}}

\* The tree below an archive root: the ZipDir nodes and the ZipFile nodes by
\* the path that leads to them through SubDirs and Files
NoTree == [dirs |-> {}, files |-> <<>>]
EmptyTree == [dirs |-> {<<>>}, files |-> [p \in {} |-> 0]]

RECURSIVE AddComponents(_, _, _, _, _)
\* ReadArchive, lines 144-172: the components of one entry from the i-th on,
\* with dir the directory the walk stands in
AddComponents(tree, dir, components, i, size) ==
    IF i > Len(components) THEN tree
    ELSE LET name == components[i]
             child == Append(dir, name)
         IN
         IF name = "" THEN AddComponents(tree, dir, components, i + 1, size)
         ELSE IF child \in tree.dirs
         THEN AddComponents(tree, child, components, i + 1, size)
         ELSE IF i = Len(components)
         THEN AddComponents([tree EXCEPT !.files =
                                [p \in DOMAIN tree.files \cup {child} |->
                                    IF p = child THEN size ELSE tree.files[p]]],
                            dir, components, i + 1, size)
         ELSE AddComponents([tree EXCEPT !.dirs = @ \cup {child}],
                            dir, components, i + 1, size)

RECURSIVE AddEntries(_, _, _)
\* ReadArchive, lines 130-173: the entries of the archive from the j-th on
AddEntries(tree, archive, j) ==
    IF j > Len(archive) THEN tree
    ELSE AddEntries(AddComponents(tree, <<>>, archive[j].Name, 1, archive[j].Size),
                    archive, j + 1)

\* ZipDir.ReadArchive: the tree is built once
ReadArchive(tree, archive) ==
    IF tree # NoTree THEN tree ELSE AddEntries(EmptyTree, archive, 1)

NoZipNode == [kind |-> "none", path |-> <<>>, Size |-> 0]
ZipRoot == [kind |-> "ZipDir", path |-> <<>>, Size |-> 0]

\* ZipDir.Lookup of name in the directory at dir, lines 203-211
ZipLookupIn(tree, dir, name) ==
    LET child == Append(dir, name) IN
    IF child \in tree.dirs THEN [kind |-> "ZipDir", path |-> child, Size |-> 0]
    ELSE IF child \in DOMAIN tree.files
    THEN [kind |-> "ZipFile", path |-> child, Size |-> tree.files[child]]
    ELSE NoZipNode

\* ZipDir.ReadDirAll of the directory at dir, lines 184-192: the names listed
ZipReadDirIn(tree, dir) ==
    {n \in ZipNames : Append(dir, n) \in tree.dirs}
    \cup {n \in ZipNames : Append(dir, n) \in DOMAIN tree.files}

IdleZipResult == [op |-> "none", name |-> "", node |-> NoZipNode, err |-> "nil",
                  listing |-> {}]

ZipIdle ==
    /\ zarchive = <<>>
    /\ ztree = NoTree
    /\ zcur = ZipRoot
    /\ zres = IdleZipResult
    /\ nZipOps = 0

\* The root of an archive that was looked up and not read yet
ZipInit ==
    /\ zarchive \in ZipArchives
    /\ ztree = NoTree
    /\ zcur = ZipRoot
    /\ zres = IdleZipResult
    /\ nZipOps = 0

\* ZipDir.Lookup(name) on the directory the kernel has walked to; opened
\* says whether the archive can be opened when it has to be read
ZipLookup(name, opened) ==
    /\ nZipOps < MaxZipOps /\ zcur.kind = "ZipDir"
    /\ nZipOps' = nZipOps + 1
    /\ IF ztree = NoTree /\ ~opened
       THEN /\ zres' = [IdleZipResult EXCEPT !.op = "Lookup", !.name = name, !.err = "EIO"]
            /\ UNCHANGED <<ztree, zcur>>
       ELSE LET tree == ReadArchive(ztree, zarchive)
                node == ZipLookupIn(tree, zcur.path, name)
            IN
            /\ ztree' = tree
            /\ zcur' = IF node = NoZipNode THEN zcur ELSE node
            /\ zres' = [IdleZipResult EXCEPT
                          !.op = "Lookup", !.name = name, !.node = node,
                          !.err = IF node = NoZipNode THEN "ENOENT" ELSE "nil"]
    /\ UNCHANGED zarchive
    /\ UNCHANGED OthersZip

\* ZipDir.ReadDirAll on the directory the kernel has walked to
ZipReadDirAll(opened) ==
    /\ nZipOps < MaxZipOps /\ zcur.kind = "ZipDir"
    /\ nZipOps' = nZipOps + 1
    /\ IF ztree = NoTree /\ ~opened
       THEN /\ zres' = [IdleZipResult EXCEPT !.op = "ReadDirAll", !.err = "EIO"]
            /\ UNCHANGED ztree
       ELSE LET tree == ReadArchive(ztree, zarchive) IN
            /\ ztree' = tree
            /\ zres' = [IdleZipResult EXCEPT !.op = "ReadDirAll",
                                             !.listing = ZipReadDirIn(tree, zcur.path)]
    /\ UNCHANGED <<zarchive, zcur>>
    /\ UNCHANGED OthersZip

\* The kernel starts another walk at the archive root
ZipWalkFromRoot ==
    /\ zcur # ZipRoot
    /\ zcur' = ZipRoot
    /\ UNCHANGED <<zarchive, ztree, zres, nZipOps>>
    /\ UNCHANGED OthersZip

ZipNext ==
    \/ \E name \in ZipNames, opened \in BOOLEAN : ZipLookup(name, opened)
    \/ \E opened \in BOOLEAN : ZipReadDirAll(opened)
    \/ ZipWalkFromRoot

\* ------------------------------------------------------------------------
\* FileSystem.Unmount and FileSystem.CloseOnUnmount (unnamed/part_011), as
\* main calls them
\* ------------------------------------------------------------------------

\* The callers of Unmount: the goroutine that handles signals and the
\* deferred call that runs when main returns
Unmounters == {"signal", "deferred"}

\* The resources that ZipDir.ReadArchive registers
Resources == 1..MaxResources

UnmountIdle ==
    /\ Mounted = TRUE
    /\ closeOnUnmount = <<>>
    /\ closeCount = [r \in Resources |-> 0]
    /\ unmounter = [u \in Unmounters |-> "idle"]
    /\ nSignals = 0

\* After FileSystem.Mount succeeded
UnmountInit == UnmountIdle

\* The process runs: log.Fatal has not ended it
Running == \A u \in Unmounters : unmounter[u] # "fatal"

\* FileSystem.CloseOnUnmount(file), called by a request that reads an
\* archive: the file is appended under closeOnUnmountLock
CloseOnUnmount(file) ==
    /\ Running
    /\ \A i \in DOMAIN closeOnUnmount : closeOnUnmount[i] # file
    /\ \A r \in Resources : r < file => \E i \in DOMAIN closeOnUnmount : closeOnUnmount[i] = r
    /\ closeOnUnmount' = Append(closeOnUnmount, file)
    /\ UNCHANGED <<Mounted, closeCount, unmounter, nSignals>>
    /\ UNCHANGED OthersUnmount

\* A caller enters Unmount: a signal arrives at the handler, which takes its
\* signals one after the other, or main returns
UnmountCall(u) ==
    /\ Running
    /\ unmounter[u] \in (IF u = "signal" THEN {"idle", "done"} ELSE {"idle"})
    /\ u = "signal" => nSignals < MaxSignals
    /\ nSignals' = IF u = "signal" THEN nSignals + 1 ELSE nSignals
    /\ unmounter' = [unmounter EXCEPT ![u] = "check"]
    /\ UNCHANGED <<Mounted, closeOnUnmount, closeCount>>
    /\ UNCHANGED OthersUnmount

\* Unmount, lines 84-86: returns when the file system is not mounted
UnmountCheck(u) ==
    /\ Running /\ unmounter[u] = "check"
    /\ unmounter' = [unmounter EXCEPT ![u] = IF Mounted THEN "set" ELSE "done"]
    /\ UNCHANGED <<Mounted, closeOnUnmount, closeCount, nSignals>>
    /\ UNCHANGED OthersUnmount

\* Unmount, lines 87-90: Mounted is cleared and fusermount is run
UnmountRun(u) ==
    /\ Running /\ unmounter[u] = "set"
    /\ Mounted' = FALSE
    /\ unmounter' = [unmounter EXCEPT ![u] = "lock"]
    /\ UNCHANGED <<closeOnUnmount, closeCount, nSignals>>
    /\ UNCHANGED OthersUnmount

\* Unmount, lines 93-101: under closeOnUnmountLock every registered file is
\* closed; a failure of fusermount then ends the process
UnmountClose(u, helperOk) ==
    /\ Running /\ unmounter[u] = "lock"
    /\ closeCount' = [r \in Resources |->
                         IF \E i \in DOMAIN closeOnUnmount : closeOnUnmount[i] = r
                         THEN closeCount[r] + 1 ELSE closeCount[r]]
    /\ unmounter' = [unmounter EXCEPT ![u] = IF helperOk THEN "done" ELSE "fatal"]
    /\ UNCHANGED <<Mounted, closeOnUnmount, nSignals>>
    /\ UNCHANGED OthersUnmount

UnmountNext ==
    \/ \E file \in Resources : CloseOnUnmount(file)
    \/ \E u \in Unmounters : UnmountCall(u)
    \/ \E u \in Unmounters : UnmountCheck(u)
    \/ \E u \in Unmounters : UnmountRun(u)
    \/ \E u \in Unmounters, helperOk \in BOOLEAN : UnmountClose(u, helperOk)

\* ------------------------------------------------------------------------
\* File and FileHandle: the handles of one file and the requests on them
\* ------------------------------------------------------------------------

KernelThreads == {"k1", "k2"}

OpenFlags == {"ReadOnly", "WriteOnly", "ReadWrite"}

HandleOps == {"Read", "Write", "Flush"}

IdleKreq == [op |-> "none", h |-> 0, pc |-> "idle", snapshot |-> <<>>, reached |-> {}]

HandleIdle ==
    /\ fileHandles = <<>>
    /\ activeHandles = <<>>
    /\ kreq = [k \in KernelThreads |-> IdleKreq]
    /\ nHandleOps = 0

HandleInit == HandleIdle

\* A kernel thread may take a new request
KreqMayStart(k) ==
    /\ kreq[k].pc \in {"idle", "done"}
    /\ nHandleOps < MaxHandleOps
    /\ nHandleOps' = nHandleOps + 1

\* File.Open (and the handle part of Dir.Create): NewFileHandle, EnableRead
\* or EnableWrite by the flags, and AddHandle when they succeeded
FileOpen(k, flags, enableOk) ==
    /\ KreqMayStart(k)
    /\ Len(fileHandles) < MaxHandles
    /\ IF enableOk
       THEN /\ fileHandles' = Append(fileHandles,
                   [Reader |-> IF flags \in {"ReadOnly", "ReadWrite"} THEN "open" ELSE "nil",
                    Writer |-> IF flags = "WriteOnly" THEN "open" ELSE "nil",
                    Mutex |-> "none", release |-> "no"])
            /\ activeHandles' = Append(activeHandles, Len(fileHandles) + 1)
            /\ kreq' = [kreq EXCEPT ![k] =
                   [IdleKreq EXCEPT !.op = "Open", !.h = Len(fileHandles) + 1, !.pc = "done"]]
       ELSE /\ kreq' = [kreq EXCEPT ![k] = [IdleKreq EXCEPT !.op = "Open", !.pc = "done"]]
            /\ UNCHANGED <<fileHandles, activeHandles>>
    /\ UNCHANGED OthersHandle

\* FileHandle.Read, Write and Flush, first step: this.Mutex.Lock()
HandleLock(k, h, hop) ==
    /\ KreqMayStart(k)
    /\ h \in DOMAIN fileHandles
    /\ fileHandles[h].release = "no"
    /\ fileHandles[h].Mutex = "none"
    /\ fileHandles' = [fileHandles EXCEPT ![h].Mutex = k]
    /\ kreq' = [kreq EXCEPT ![k] = [IdleKreq EXCEPT !.op = hop, !.h = h, !.pc = "locked"]]
    /\ UNCHANGED activeHandles
    /\ UNCHANGED OthersHandle

\* FileHandle.Read, Write and Flush, the body and the deferred Mutex.Unlock():
\* a Read on a handle without reader enables it, a Write on a handle without
\* writer enables it
HandleRun(k, enableOk) ==
    LET r == kreq[k]
        hd == fileHandles[r.h]
    IN
    /\ r.pc = "locked"
    /\ (r.op = "Flush" \/ (r.op = "Read" /\ hd.Reader # "nil")
                       \/ (r.op = "Write" /\ hd.Writer # "nil")) => enableOk
    /\ fileHandles' = [fileHandles EXCEPT
            ![r.h].Mutex = "none",
            ![r.h].Reader = IF r.op = "Read" /\ enableOk THEN "open" ELSE @,
            ![r.h].Writer = IF r.op = "Write" /\ enableOk THEN "open" ELSE @]
    /\ kreq' = [kreq EXCEPT ![k].pc = "done"]
    /\ UNCHANGED <<activeHandles, nHandleOps>>
    /\ UNCHANGED OthersHandle

\* FileHandle.Release, first half: the reader is closed and set to nil
ReleaseReader(k, h) ==
    /\ KreqMayStart(k)
    /\ h \in DOMAIN fileHandles
    /\ fileHandles[h].release = "no"
    /\ fileHandles' = [fileHandles EXCEPT ![h].Reader = "nil", ![h].release = "started"]
    /\ kreq' = [kreq EXCEPT ![k] = [IdleKreq EXCEPT !.op = "Release", !.h = h, !.pc = "writer"]]
    /\ UNCHANGED activeHandles
    /\ UNCHANGED OthersHandle

\* FileHandle.Release, second half: the writer is closed and set to nil
ReleaseWriter(k) ==
    LET r == kreq[k] IN
    /\ r.pc = "writer"
    /\ fileHandles' = [fileHandles EXCEPT ![r.h].Writer = "nil", ![r.h].release = "done"]
    /\ kreq' = [kreq EXCEPT ![k].pc = "done"]
    /\ UNCHANGED <<activeHandles, nHandleOps>>
    /\ UNCHANGED OthersHandle

\* File.Fsync, first step: the snapshot GetActiveHandles returns
FileFsync(k) ==
    /\ KreqMayStart(k)
    /\ kreq' = [kreq EXCEPT ![k] =
           [IdleKreq EXCEPT !.op = "Fsync", !.pc = "dispatch", !.snapshot = activeHandles]]
    /\ UNCHANGED <<fileHandles, activeHandles>>
    /\ UNCHANGED OthersHandle

\* File.Fsync, one iteration of the loop over the snapshot
FsyncDispatch(k) ==
    LET r == kreq[k] IN
    /\ r.pc = "dispatch"
    /\ kreq' = IF r.snapshot = <<>>
               THEN [kreq EXCEPT ![k].pc = "done"]
               ELSE [kreq EXCEPT ![k].snapshot = Tail(r.snapshot),
                                 ![k].reached = r.reached \cup {Head(r.snapshot)}]
    /\ UNCHANGED <<fileHandles, activeHandles, nHandleOps>>
    /\ UNCHANGED OthersHandle

HandleNext ==
    \/ \E k \in KernelThreads, flags \in OpenFlags, enableOk \in BOOLEAN :
          FileOpen(k, flags, enableOk)
    \/ \E k \in KernelThreads, h \in 1..MaxHandles, hop \in HandleOps :
          HandleLock(k, h, hop)
    \/ \E k \in KernelThreads, enableOk \in BOOLEAN : HandleRun(k, enableOk)
    \/ \E k \in KernelThreads, h \in 1..MaxHandles : ReleaseReader(k, h)
    \/ \E k \in KernelThreads : ReleaseWriter(k)
    \/ \E k \in KernelThreads : FileFsync(k)
    \/ \E k \in KernelThreads : FsyncDispatch(k)

\* ------------------------------------------------------------------------
\* The prefix gate along a walk from the root (unnamed/part_011,
\* unnamed/part_002)
\* ------------------------------------------------------------------------

\* The longest path walked
MaxGateDepth == 3

\* The names of the directories of the store (every path made of them is a
\* directory) and the prefixes a mount may be configured with
GateSegments == {"foo", "baz", "qux"}
GatePrefixes == {"*", "foo", "baz/qux"}

\* The paths below the root, each the names from the root down
GatePaths == UNION {[1..k -> GateSegments] : k \in 1..MaxGateDepth}

RECURSIVE AbsolutePath(_)
\* Dir.AbsolutePath of the directory reached by the names dir: path.Join of
\* the parent's path and the name
AbsolutePath(dir) ==
    IF dir = <<>> THEN <<"/">>
    ELSE LET parent == AbsolutePath(SubSeq(dir, 1, Len(dir) - 1)) IN
         (IF parent = <<"/">> THEN parent ELSE parent \o <<"/">>) \o Chars(dir[Len(dir)])

\* Dir.AbsolutePathForChild of the directory reached by the names dir
AbsolutePathForChildOf(dir, name) ==
    LET path == AbsolutePath(dir) IN
    (IF path # <<"/">> THEN path \o <<"/">> ELSE path) \o Chars(name)

\* FileSystem.IsPathAllowed of a file system with these AllowedPrefixes
IsPathAllowedBy(prefixes, path) ==
    path = <<"/">> \/ \E prefix \in prefixes : PrefixAdmits(prefix, path)

NoGateResult == [op |-> "none", name |-> "", err |-> "nil"]

GateIdle == gate = [prefixes |-> {"*"}, dir |-> <<>>, res |-> NoGateResult]

\* A mount with some list of allowed prefixes; the kernel holds the root
GateInit ==
    \E prefixes \in SUBSET GatePrefixes \ {{}} :
       gate = [prefixes |-> prefixes, dir |-> <<>>, res |-> NoGateResult]

\* Dir.Lookup(name) on the directory reached, whose child exists in the
\* store as a directory: refused by the gate, or the child is the directory
\* reached next
GateLookup(name) ==
    /\ Len(gate.dir) < MaxGateDepth
    /\ IF IsPathAllowedBy(gate.prefixes, AbsolutePathForChildOf(gate.dir, name))
       THEN gate' = [gate EXCEPT !.dir = Append(gate.dir, name),
                                 !.res = [op |-> "Lookup", name |-> name, err |-> "nil"]]
       ELSE gate' = [gate EXCEPT !.res = [op |-> "Lookup", name |-> name, err |-> "ENOENT"]]
    /\ UNCHANGED OthersGate

\* The kernel starts its next walk at the root node (FileSystem.Root)
GateRoot ==
    /\ gate.dir # <<>>
    /\ gate' = [gate EXCEPT !.dir = <<>>, !.res = [NoGateResult EXCEPT !.op = "Root"]]
    /\ UNCHANGED OthersGate

GateNext ==
    \/ \E name \in GateSegments : GateLookup(name)
    \/ GateRoot

\* ------------------------------------------------------------------------
\* hdfsAccessorImpl: name node selection and the metadata client
\* (HdfsAccessor.go)
\* ------------------------------------------------------------------------

\* The most name node addresses configured and the most calls made
MaxNameNodes == 3
MaxAccOps == 3

AccThreads == {"a1", "a2"}

\* No address: a nil MetadataClient, no failure recorded
NoAddress == 0 - 1

\* The operations that lock MetadataClientMutex; those among them that
\* drop the client on a malignant error
MutexOps ==
    {"CreateFile", "ReadDir", "Stat", "StatFs", "Mkdir", "Remove", "Rename", "Chmod", "Chown"}
ResettingOps == {"ReadDir", "Stat", "StatFs"}
AccOps == MutexOps \cup {"EnsureConnected", "OpenRead"}

\* What hdfs.New and the Stat of "/$" that follows it may return
NewOutcomes == {"nil", "EIO"}
CallErrors == {"nil", "ENOENT", "EIO"}

\* IsSuccessOrBenignError on the errors above
AccIsBenign(err) == err \in {"nil", "ENOENT"}

\* connectToNameNodeImpl: the error it returns
connectToNameNodeImpl(newErr, statErr) ==
    IF newErr # "nil" THEN newErr
    ELSE IF statErr \in {"nil", "ENOENT"} THEN "nil"
    ELSE statErr

IdleAthr == [pc |-> "idle", op |-> "none", target |-> NoAddress, err |-> "nil"]

AccIdle ==
    /\ acc = [n |-> 1, CurrentNameNodeIdx |-> 0, MetadataClient |-> NoAddress,
              Mutex |-> "free", lastFailure |-> NoAddress, attempt |-> NoAddress,
              nAttempts |-> 0, nOps |-> 0]
    /\ athr = [t \in AccThreads |-> IdleAthr]

\* NewHdfsAccessor with one to MaxNameNodes addresses
AccInit ==
    /\ \E n \in 1..MaxNameNodes :
          acc = [n |-> n, CurrentNameNodeIdx |-> 0, MetadataClient |-> NoAddress,
                 Mutex |-> "free", lastFailure |-> NoAddress, attempt |-> NoAddress,
                 nAttempts |-> 0, nOps |-> 0]
    /\ athr = [t \in AccThreads |-> IdleAthr]

\* A thread enters an operation of the accessor. EnsureConnected is called
\* by main before the file system is mounted, the others by the FUSE
\* threads afterwards. Remove of a path in .Trash returns at once.
AccStart(t, aop, trash) ==
    /\ athr[t].pc = "idle"
    /\ acc.nOps < MaxAccOps
    /\ IF aop = "EnsureConnected"
       THEN acc.nOps = 0
       ELSE \A u \in AccThreads : athr[u].op # "EnsureConnected"
    /\ trash => aop = "Remove"
    /\ acc' = [acc EXCEPT !.nOps = acc.nOps + 1]
    /\ athr' = [athr EXCEPT ![t] =
                  [IdleAthr EXCEPT !.op = aop,
                                   !.pc = CASE aop = "Remove" /\ trash -> "idle"
                                            [] aop = "EnsureConnected" -> "check"
                                            [] aop = "OpenRead" -> "connect"
                                            [] OTHER -> "lock"]]
    /\ UNCHANGED OthersAcc

\* this.MetadataClientMutex.Lock()
AccLock(t) ==
    /\ athr[t].pc = "lock"
    /\ acc.Mutex = "free"
    /\ acc' = [acc EXCEPT !.Mutex = t]
    /\ athr' = [athr EXCEPT ![t].pc = "check"]
    /\ UNCHANGED OthersAcc

\* if this.MetadataClient == nil (in EnsureConnected: != nil, return nil)
AccCheck(t) ==
    /\ athr[t].pc = "check"
    /\ athr' = [athr EXCEPT ![t] =
                  IF acc.MetadataClient = NoAddress THEN [@ EXCEPT !.pc = "connect"]
                  ELSE IF athr[t].op = "EnsureConnected" THEN IdleAthr
                  ELSE [@ EXCEPT !.pc = "call"]]
    /\ UNCHANGED acc
    /\ UNCHANGED OthersAcc

\* ConnectToNameNode, line 85: the address at the current index is chosen
AccConnect(t) ==
    /\ athr[t].pc = "connect"
    /\ athr' = [athr EXCEPT ![t].pc = "connecting", ![t].target = acc.CurrentNameNodeIdx]
    /\ acc' = [acc EXCEPT !.attempt = acc.CurrentNameNodeIdx, !.nAttempts = acc.nAttempts + 1]
    /\ UNCHANGED OthersAcc

\* ConnectToNameNode, lines 86-93, with ConnectMetadataClient or OpenRead
\* around it: a failed connect advances the index; a client that connected
\* becomes the MetadataClient, or opens the file for OpenRead
AccConnected(t, newErr, statErr) ==
    /\ athr[t].pc = "connecting"
    /\ LET err == connectToNameNodeImpl(newErr, statErr) IN
       IF err # "nil"
       THEN /\ acc' = [acc EXCEPT
                         !.CurrentNameNodeIdx = (acc.CurrentNameNodeIdx + 1) % acc.n,
                         !.lastFailure = athr[t].target]
            /\ athr' = [athr EXCEPT ![t] =
                          IF athr[t].op \in MutexOps
                          THEN [@ EXCEPT !.pc = "unlock", !.err = err]
                          ELSE IdleAthr]
       ELSE /\ acc' = [acc EXCEPT
                         !.MetadataClient =
                            IF athr[t].op = "OpenRead" THEN @ ELSE athr[t].target,
                         !.lastFailure = NoAddress]
            /\ athr' = [athr EXCEPT ![t] =
                          IF athr[t].op \in MutexOps THEN [@ EXCEPT !.pc = "call"]
                          ELSE IdleAthr]
    /\ UNCHANGED OthersAcc

\* The call on this.MetadataClient: ReadDir, Stat and StatFs drop the
\* client on an error that is not benign, the others return the error
AccCall(t, err) ==
    /\ athr[t].pc = "call"
    /\ acc' = [acc EXCEPT
                 !.MetadataClient =
                    IF athr[t].op \in ResettingOps /\ ~AccIsBenign(err) THEN NoAddress ELSE @,
                 !.lastFailure = IF AccIsBenign(err) THEN @ ELSE acc.MetadataClient]
    /\ athr' = [athr EXCEPT ![t].pc = "unlock", ![t].err = err]
    /\ UNCHANGED OthersAcc

\* defer this.MetadataClientMutex.Unlock()
AccUnlock(t) ==
    /\ athr[t].pc = "unlock"
    /\ acc' = [acc EXCEPT !.Mutex = "free"]
    /\ athr' = [athr EXCEPT ![t] = IdleAthr]
    /\ UNCHANGED OthersAcc

AccNext ==
    \E t \in AccThreads :
       \/ \E aop \in AccOps, trash \in BOOLEAN : AccStart(t, aop, trash)
       \/ AccLock(t)
       \/ AccCheck(t)
       \/ AccConnect(t)
       \/ \E newErr \in NewOutcomes, statErr \in CallErrors : AccConnected(t, newErr, statErr)
       \/ \E err \in CallErrors : AccCall(t, err)
       \/ AccUnlock(t)

\* ------------------------------------------------------------------------
\* ZipDir.ReadArchive under concurrent calls on one archive root
\* (unnamed/part_007)
\* ------------------------------------------------------------------------

\* The most calls made on the root
MaxZrootCalls == 3

ZrootThreads == {"z1", "z2"}

\* zipArchiveReader.File of the archive: "d/f" and "g", seen from the root
\* as the directory d and the file g
RootArchive == <<[name |-> "d", isDir |-> TRUE], [name |-> "g", isDir |-> FALSE]>>

\* The names a listing of the root has to show
RootEntries == {RootArchive[i].name : i \in DOMAIN RootArchive}

IdleZthr == [pc |-> "idle", op |-> "none", i |-> 0, seen |-> {}, err |-> "nil"]

\* NewZipRootDir: SubDirs and Files are nil maps
ZrootIdle ==
    /\ zroot = [SubDirsNil |-> TRUE, SubDirs |-> {}, FilesNil |-> TRUE, Files |-> {},
                ReadArchiveLock |-> "free", nParsed |-> 0, nCalls |-> 0]
    /\ zthr = [t \in ZrootThreads |-> IdleZthr]

ZrootInit == ZrootIdle

\* ZipDir.Lookup or ZipDir.ReadDirAll is called and calls ReadArchive
ZrootStart(t, zop) ==
    /\ zthr[t].pc = "idle"
    /\ zroot.nCalls < MaxZrootCalls
    /\ zroot' = [zroot EXCEPT !.nCalls = zroot.nCalls + 1]
    /\ zthr' = [zthr EXCEPT ![t] = [IdleZthr EXCEPT !.pc = "check", !.op = zop]]
    /\ UNCHANGED OthersZroot

\* ReadArchive, lines 95-98: the test of SubDirs made without the lock
ZrootCheck(t) ==
    /\ zthr[t].pc = "check"
    /\ zthr' = [zthr EXCEPT ![t].pc = IF zroot.SubDirsNil THEN "lock" ELSE "read"]
    /\ UNCHANGED zroot
    /\ UNCHANGED OthersZroot

\* ReadArchive, line 99
ZrootLock(t) ==
    /\ zthr[t].pc = "lock"
    /\ zroot.ReadArchiveLock = "free"
    /\ zroot' = [zroot EXCEPT !.ReadArchiveLock = t]
    /\ zthr' = [zthr EXCEPT ![t].pc = "recheck"]
    /\ UNCHANGED OthersZroot

\* ReadArchive, lines 102-105: the test repeated under the lock
ZrootRecheck(t) ==
    /\ zthr[t].pc = "recheck"
    /\ zthr' = [zthr EXCEPT ![t].pc = IF zroot.SubDirsNil THEN "open" ELSE "unlock"]
    /\ UNCHANGED zroot
    /\ UNCHANGED OthersZroot

\* ReadArchive, lines 108-124: the attributes are read and the archive is
\* opened; either may fail
ZrootOpen(t, ok) ==
    /\ zthr[t].pc = "open"
    /\ zthr' = [zthr EXCEPT ![t].pc = IF ok THEN "makeSubDirs" ELSE "unlock",
                            ![t].err = IF ok THEN "nil" ELSE "EIO"]
    /\ UNCHANGED zroot
    /\ UNCHANGED OthersZroot

\* ReadArchive, line 126
ZrootMakeSubDirs(t) ==
    /\ zthr[t].pc = "makeSubDirs"
    /\ zroot' = [zroot EXCEPT !.SubDirsNil = FALSE, !.SubDirs = {},
                              !.nParsed = zroot.nParsed + 1]
    /\ zthr' = [zthr EXCEPT ![t].pc = "makeFiles"]
    /\ UNCHANGED OthersZroot

\* ReadArchive, line 127
ZrootMakeFiles(t) ==
    /\ zthr[t].pc = "makeFiles"
    /\ zroot' = [zroot EXCEPT !.FilesNil = FALSE, !.Files = {}]
    /\ zthr' = [zthr EXCEPT ![t].pc = "entries", ![t].i = 1]
    /\ UNCHANGED OthersZroot

\* ReadArchive, lines 130-173: one entry of the archive is put in the tree
ZrootEntry(t) ==
    /\ zthr[t].pc = "entries"
    /\ LET e == RootArchive[zthr[t].i] IN
       zroot' = [zroot EXCEPT
                   !.SubDirs = IF e.isDir THEN @ \cup {e.name} ELSE @,
                   !.Files = IF e.isDir THEN @ ELSE @ \cup {e.name}]
    /\ zthr' = [zthr EXCEPT ![t].i = zthr[t].i + 1,
                            ![t].pc = IF zthr[t].i = Len(RootArchive) THEN "unlock"
                                      ELSE "entries"]
    /\ UNCHANGED OthersZroot

\* ReadArchive, line 100 (deferred): the lock is released and ReadArchive
\* returns to Lookup or ReadDirAll
ZrootUnlock(t) ==
    /\ zthr[t].pc = "unlock"
    /\ zroot' = [zroot EXCEPT !.ReadArchiveLock = "free"]
    /\ zthr' = [zthr EXCEPT ![t].pc = IF zthr[t].err = "nil" THEN "read" ELSE "done"]
    /\ UNCHANGED OthersZroot

\* A thread is writing the maps of the root
ZrootWriting == \E u \in ZrootThreads : zthr[u].pc \in {"makeFiles", "entries"}

\* ReadDirAll, lines 184-192, and Lookup, lines 203-211: the maps are read.
\* Read while another thread writes them, the Go runtime may also stop the
\* process (concurrent map read and map write).
ZrootRead(t, fatal) ==
    /\ zthr[t].pc = "read"
    /\ fatal => ZrootWriting
    /\ zthr' = [zthr EXCEPT ![t].pc = "done",
                            ![t].err = IF fatal THEN "fatal" ELSE "nil",
                            ![t].seen = IF fatal THEN {} ELSE zroot.SubDirs \cup zroot.Files]
    /\ UNCHANGED zroot
    /\ UNCHANGED OthersZroot

\* The call has returned; the thread serves the next request
ZrootReturn(t) ==
    /\ zthr[t].pc = "done"
    /\ zthr' = [zthr EXCEPT ![t] = IdleZthr]
    /\ UNCHANGED zroot
    /\ UNCHANGED OthersZroot

ZrootNext ==
    \E t \in ZrootThreads :
       \/ \E zop \in {"Lookup", "ReadDirAll"} : ZrootStart(t, zop)
       \/ ZrootCheck(t)
       \/ ZrootLock(t)
       \/ ZrootRecheck(t)
       \/ \E ok \in BOOLEAN : ZrootOpen(t, ok)
       \/ ZrootMakeSubDirs(t)
       \/ ZrootMakeFiles(t)
       \/ ZrootEntry(t)
       \/ ZrootUnlock(t)
       \/ \E fatal \in BOOLEAN : ZrootRead(t, fatal)
       \/ ZrootReturn(t)

\* ------------------------------------------------------------------------
\* ZipFileHandle.Read (FaultTolerantHdfsAccessor_test.go, lines 105-153)
\* ------------------------------------------------------------------------

\* The length of the content stream, the largest offset and size of a
\* Read request, the most requests sent
ZfhStreamLen == 2
MaxZfhOffset == 2
MaxZfhSize == 2
MaxZfhReads == 3

ZfhThreads == {"r1", "r2"}

IdleZreq == [pc |-> "idle", Offset |-> 0, Size |-> 0, nr |-> 0]

\* NewZipFileHandle: offset 0, lock free
ZfhIdle ==
    /\ zfh = [offset |-> 0, lock |-> "free", nReads |-> 0]
    /\ zreq = [t \in ZfhThreads |-> IdleZreq]

ZfhInit == ZfhIdle

\* The kernel sends a Read request; bazil/fuse serves it on a goroutine
ZfhStart(t, offset, size) ==
    /\ zreq[t].pc = "idle"
    /\ zfh.nReads < MaxZfhReads
    /\ zfh' = [zfh EXCEPT !.nReads = zfh.nReads + 1]
    /\ zreq' = [zreq EXCEPT ![t] = [pc |-> "lock", Offset |-> offset, Size |-> size,
                                    nr |-> 0]]
    /\ UNCHANGED OthersZfh

\* this.lock.Lock(), at line 128 and at the end of the loop body
ZfhLock(t) ==
    /\ zreq[t].pc = "lock"
    /\ zfh.lock = "free"
    /\ zfh' = [zfh EXCEPT !.lock = t]
    /\ zreq' = [zreq EXCEPT ![t].pc = "test"]
    /\ UNCHANGED OthersZfh

\* for req.Offset != this.offset: the lock is released for a sleep, or the
\* loop is left
ZfhTest(t) ==
    /\ zreq[t].pc = "test"
    /\ IF zreq[t].Offset # zfh.offset
       THEN /\ zfh' = [zfh EXCEPT !.lock = "free"]
            /\ zreq' = [zreq EXCEPT ![t].pc = "sleep"]
       ELSE /\ zreq' = [zreq EXCEPT ![t].pc = "read"]
            /\ UNCHANGED zfh
    /\ UNCHANGED OthersZfh

\* time.Sleep of up to 10 ms is over
ZfhSleep(t) ==
    /\ zreq[t].pc = "sleep"
    /\ zreq' = [zreq EXCEPT ![t].pc = "lock"]
    /\ UNCHANGED zfh
    /\ UNCHANGED OthersZfh

\* io.ReadFull on the content stream: as many bytes as the stream has left
ReadFull(offset, size) == Min(size, Max(ZfhStreamLen - offset, 0))

\* Lines 144-152 with the deferred Unlock: the bytes are read, the offset
\* advances by their number, the request returns
ZfhRead(t) ==
    /\ zreq[t].pc = "read"
    /\ LET nr == ReadFull(zfh.offset, zreq[t].Size) IN
       /\ zfh' = [zfh EXCEPT !.offset = zfh.offset + nr, !.lock = "free"]
       /\ zreq' = [zreq EXCEPT ![t] = [IdleZreq EXCEPT !.nr = nr]]
    /\ UNCHANGED OthersZfh

\* The steps of the goroutine serving the request of thread t
ZfhStep(t) == ZfhLock(t) \/ ZfhTest(t) \/ ZfhSleep(t) \/ ZfhRead(t)

ZfhNext ==
    \E t \in ZfhThreads :
       \/ \E offset \in 0..MaxZfhOffset, size \in 1..MaxZfhSize : ZfhStart(t, offset, size)
       \/ ZfhLock(t)
       \/ ZfhTest(t)
       \/ ZfhSleep(t)
       \/ ZfhRead(t)

\* Every component above at rest while another one runs
ExtraIdle == GateIdle /\ AccIdle /\ ZrootIdle /\ ZfhIdle

\* ------------------------------------------------------------------------
\* Specifications
\* ------------------------------------------------------------------------

InitRAR == RARInit /\ FHRIdle /\ FTIdle /\ WriterIdle /\ DirIdle /\ BackoffIdle /\ ZipIdle /\ UnmountIdle /\ HandleIdle /\ ExtraIdle

SpecRAR == InitRAR /\ [][RARNext]_vars

InitRARFaulty == RARFaultyInit /\ FHRIdle /\ FTIdle /\ WriterIdle /\ DirIdle /\ BackoffIdle /\ ZipIdle /\ UnmountIdle /\ HandleIdle /\ ExtraIdle

SpecRARFaulty == InitRARFaulty /\ [][RARNext]_vars

InitFHR == FHRInit /\ RARIdle /\ FTIdle /\ WriterIdle /\ DirIdle /\ BackoffIdle /\ ZipIdle /\ UnmountIdle /\ HandleIdle /\ ExtraIdle

SpecFHR == InitFHR /\ [][FHRNext]_vars

InitFHRRejecting == FHRRejectingInit /\ RARIdle /\ FTIdle /\ WriterIdle /\ DirIdle /\ BackoffIdle /\ ZipIdle /\ UnmountIdle /\ HandleIdle /\ ExtraIdle

SpecFHRRejecting == InitFHRRejecting /\ [][FHRNext]_vars

InitFT == FTInit /\ RARIdle /\ FHRIdle /\ WriterIdle /\ DirIdle /\ BackoffIdle /\ ZipIdle /\ UnmountIdle /\ HandleIdle /\ ExtraIdle

SpecFT == InitFT /\ [][FTNext]_vars

InitWriter == WriterInit /\ RARIdle /\ FHRIdle /\ FTIdle /\ DirIdle /\ BackoffIdle /\ ZipIdle /\ UnmountIdle /\ HandleIdle /\ ExtraIdle

SpecWriter == InitWriter /\ [][WriterNext]_vars

InitDir == DirInit /\ RARIdle /\ FHRIdle /\ FTIdle /\ WriterIdle /\ BackoffIdle /\ ZipIdle /\ UnmountIdle /\ HandleIdle /\ ExtraIdle

SpecDir == InitDir /\ [][DirNext]_vars

InitBackoff == BackoffInit /\ RARIdle /\ FHRIdle /\ FTIdle /\ WriterIdle /\ DirIdle /\ ZipIdle /\ UnmountIdle /\ HandleIdle /\ ExtraIdle

SpecBackoff == InitBackoff /\ [][BackoffNext]_vars

InitZip ==
    ZipInit /\ RARIdle /\ FHRIdle /\ FTIdle /\ WriterIdle /\ DirIdle /\ BackoffIdle
            /\ UnmountIdle /\ HandleIdle /\ ExtraIdle

InitUnmount ==
    UnmountInit /\ RARIdle /\ FHRIdle /\ FTIdle /\ WriterIdle /\ DirIdle /\ BackoffIdle
                /\ ZipIdle /\ HandleIdle /\ ExtraIdle

SpecUnmount == InitUnmount /\ [][UnmountNext]_vars

SpecZip == InitZip /\ [][ZipNext]_vars

InitHandle ==
    HandleInit /\ RARIdle /\ FHRIdle /\ FTIdle /\ WriterIdle /\ DirIdle /\ BackoffIdle
               /\ ZipIdle /\ UnmountIdle /\ ExtraIdle

SpecHandle == InitHandle /\ [][HandleNext]_vars

\* The nine components first modelled, at rest
CoreIdle ==
    RARIdle /\ FHRIdle /\ FTIdle /\ WriterIdle /\ DirIdle /\ BackoffIdle
            /\ ZipIdle /\ UnmountIdle /\ HandleIdle

InitGate == GateInit /\ CoreIdle /\ AccIdle /\ ZrootIdle /\ ZfhIdle

InitAcc == AccInit /\ CoreIdle /\ GateIdle /\ ZrootIdle /\ ZfhIdle

InitZroot == ZrootInit /\ CoreIdle /\ GateIdle /\ AccIdle /\ ZfhIdle

InitZfh == ZfhInit /\ CoreIdle /\ GateIdle /\ AccIdle /\ ZrootIdle

\* Every goroutine serving a Read keeps running, and one that waits for the
\* lock gets it when the lock is free again and again; the kernel is not
\* bound to send any request
SpecZfh ==
    /\ InitZfh /\ [][ZfhNext]_vars
    /\ \A t \in ZfhThreads :
          /\ WF_vars(ZfhTest(t) \/ ZfhSleep(t) \/ ZfhRead(t))
          /\ SF_vars(ZfhLock(t))

SpecZroot == InitZroot /\ [][ZrootNext]_vars

SpecAcc == InitAcc /\ [][AccNext]_vars

SpecGate == InitGate /\ [][GateNext]_vars

\* ------------------------------------------------------------------------
\* Properties
\* ------------------------------------------------------------------------

\* C1: under any interleaving of concurrent ReadAt calls on one reader over
\* an unchanged file, a ReadAt(buf, offset) whose range lies inside the file
\* returns len(buf) bytes equal to the file bytes of that range and no error
\* (a call started after Close of the reader fails with the reader-closed
\* error instead).
C1_ReadAtReturnsFileBytes ==
    \A t \in Threads :
        LET c == calls[t] IN
        (c.pc \in {"return", "done"} /\ c.offset + c.size <= FileSize)
            => \/ c.err = "nil" /\ c.data = FileBytes(c.offset, c.size)
               \/ c.err = "closed" /\ PoolIsNil /\ c.reader = NoReader

\* C1 witness: a call has returned a full buffer from a stream it took from
\* the pool, while the other caller is in the middle of its own ReadAt.
C1_Witness ==
    \E t \in Threads, u \in Threads :
        /\ t # u
        /\ calls[t].pc = "done" /\ calls[t].err = "nil"
        /\ calls[t].size = MaxRead /\ calls[t].offset > 0
        /\ calls[t].reader # NoReader /\ Len(streams) < nCalls
        /\ calls[u].pc = "read" /\ calls[u].data # <<>>

C3_FlushedStoreEqualsStaging ==
    (writer.pc = "idle" /\ writer.last = "Flush" /\ writer.err = "nil")
        => (store.exists /\ store.data = stagingFile)

\* Number of events of one kind in the trace of a call
CountEvents(o, ev) == Cardinality({i \in DOMAIN o.trace : o.trace[i].ev = ev})

\* Every attempt of the call failed with a malignant error
AllMalignant(o) ==
    \A i \in DOMAIN o.trace : o.trace[i].ev = "attempt" => o.trace[i].err = "EIO"

IsNotSleep(e) == e.ev # "sleep"

\* The trace without its sleeps is attempt, Close, attempt, ..., attempt
ClosesBetweenAttempts(o) ==
    LET f == SelectSeq(o.trace, IsNotSleep) IN
    /\ Len(f) % 2 = 1
    /\ \A i \in DOMAIN f : f[i].ev = (IF i % 2 = 1 THEN "attempt" ELSE "Close")

\* C4 (as amended): an accessor operation invokes its base operation at
\* most max(1, MaxAttempts) times, MaxAttempts being the policy's value when
\* the operation started; for every operation except createFile, when
\* MaxAttempts >= 1 stays unchanged, the deadline is never passed and every
\* attempt fails with a malignant error, it invokes it exactly MaxAttempts
\* times.
C4_AttemptsBounded ==
    op.kind \in AccessorOps =>
        /\ CountEvents(op, "attempt") <= Max(1, op.maxAtStart)
        /\ ( /\ op.pc = "done" /\ op.kind # "CreateFile"
             /\ MaxAttempts = op.maxAtStart /\ MaxAttempts >= 1
             /\ now <= op.Expires /\ AllMalignant(op) )
           => CountEvents(op, "attempt") = MaxAttempts

\* C4 witness: a stat that failed malignantly on each of its MaxAttempts > 1
\* attempts, within its deadline.
C4_Witness ==
    /\ op.pc = "done" /\ op.kind = "Stat" /\ op.err = "EIO"
    /\ MaxAttempts = op.maxAtStart /\ MaxAttempts = PolicyMaxAttempts
    /\ now <= op.Expires /\ AllMalignant(op)
    /\ CountEvents(op, "attempt") = PolicyMaxAttempts

\* C4 as stated: every accessor operation invokes its base operation at most
\* MaxAttempts times, and exactly MaxAttempts times when the deadline is
\* never passed and every attempt fails with a malignant error.
C4_AsStated ==
    (op.kind \in AccessorOps /\ op.pc = "done") =>
        /\ CountEvents(op, "attempt") <= op.maxAtStart
        /\ (MaxAttempts = op.maxAtStart /\ now <= op.Expires /\ AllMalignant(op))
           => CountEvents(op, "attempt") = MaxAttempts

C6_CloseBetweenAttempts ==
    op.pc = "done" =>
        /\ op.kind \in {"ReadDir", "Stat", "StatFs", "Mkdir", "Remove", "Rename",
                        "Chmod", "Chown"}
           => /\ ClosesBetweenAttempts(op)
              /\ CountEvents(op, "Close") = CountEvents(op, "attempt") - 1
        /\ op.kind = "EnsureConnected" => CountEvents(op, "Close") = 0

\* C6 witness: a rename that took three attempts, with two Close calls.
C6_Witness ==
    /\ op.pc = "done" /\ op.kind = "Rename"
    /\ CountEvents(op, "attempt") = 3 /\ CountEvents(op, "Close") = 2

\* C6 as stated: ensureConnected too issues n-1 Close calls for n attempts.
C6_AsStated ==
    (op.pc = "done" /\ op.kind \in {"EnsureConnected", "ReadDir", "Stat", "StatFs",
                                    "Mkdir", "Remove", "Rename", "Chmod", "Chown"})
        => /\ ClosesBetweenAttempts(op)
           /\ CountEvents(op, "Close") = CountEvents(op, "attempt") - 1

C8_LookupReturnsSameNode ==
    (dres.op = "Lookup" /\ dres.err = "nil" /\ dres.prevNode # NoNode)
        => dres.node = dres.prevNode

\* C9: after a successful ReadDir, a Lookup of a name of the returned listing
\* (not removed or renamed since) issues no call to the store.
C9_ListedLookupNoBackendCall ==
    (dres.op = "Lookup" /\ dres.wasListed) => dres.calls = 0

\* C9 witness: the archive root listed next to a zip file was looked up
\* after the ReadDir and a ZipDir node was returned without any call.
C9_Witness ==
    /\ dres.op = "Lookup" /\ dres.wasListed /\ dres.name = "x.zip@"
    /\ dres.err = "nil" /\ dres.calls = 0
    /\ dres.node \in DOMAIN nodes /\ nodes[dres.node].kind = "ZipDir"

\* C10: for a File or Dir child whose attributes the store supplied at time
\* t, an Attr call up to t + TTL returns the cached attributes without a call
\* to the store, and an Attr call after t + TTL issues exactly one stat and,
\* when it succeeds, returns the fresh attributes and restarts the TTL.
C10_AttrServedFromCacheWithinTTL ==
    ( /\ dres.op = "Attr"
      /\ nodes[dres.node].kind \in {"File", "Dir"}
      /\ dres.before.obtainedAt # ZeroTime )
    => LET t == dres.before.obtainedAt IN
       /\ dres.at <= t + AttrTTL
            => dres.calls = 0 /\ dres.err = "nil" /\ dres.mode = dres.before.Mode
       /\ dres.at > t + AttrTTL
            => /\ dres.calls = 1
               /\ dres.err = "nil"
                    => /\ dres.mode = nodes[dres.node].Attrs.Mode
                       /\ nodes[dres.node].Attrs.obtainedAt = dres.at
                       /\ nodes[dres.node].Attrs.Expires = dres.at + AttrTTL

\* A step of Mkdir, Create, Remove or Rename
IsCacheMutatorStep ==
    nDirOps' = nDirOps + 1 /\ dres'.op \in {"Mkdir", "Create", "Remove", "Rename"}

\* What a successful Mkdir, Create, Remove or Rename does to the child cache
SuccessfulMutation ==
    IF dres'.op \in {"Remove", "Rename"}
    THEN /\ Entries' = [Entries EXCEPT ![dres'.name] = NoNode]
         /\ IsPathAllowed(dres'.name) =>
               Lookup([Entries |-> Entries', nodes |-> nodes'], dres'.name, TRUE).calls = 1
    ELSE /\ dres'.node = Len(nodes) + 1
         /\ Entries' = [Entries EXCEPT ![dres'.name] = dres'.node]
         /\ nodes'[dres'.node].Attrs.Name = dres'.name

\* C11: Mkdir, Create, Remove and Rename change the parent's child cache only
\* when they succeed: a successful Remove or Rename evicts the (old) name so
\* that the next Lookup of it calls the store, a successful Mkdir or Create
\* records the new node, and a failed operation leaves the cache as it was.
C11_CacheChangesOnlyOnSuccess ==
    [][IsCacheMutatorStep =>
          IF dres'.err = "nil" THEN SuccessfulMutation ELSE Entries' = Entries]_vars

\* C12: no Lookup or ReadDir returns, lists or caches a node whose absolute
\* path the prefix gate denies: a denied Lookup returns not-found without a
\* call to the store, and ReadDir emits and pre-caches only entries that the
\* gate allows (a prefix admitting whole path segments only).
C12_GateDeniedNeverServed ==
    [][(nDirOps' = nDirOps + 1 /\ dres'.op \in {"Lookup", "ReadDirAll"}) =>
          /\ \A n \in AllNames : Entries'[n] # Entries[n] => IsPathAllowed(n)
          /\ \A n \in dres'.listing : IsPathAllowed(n)
          /\ (dres'.op = "Lookup" /\ ~IsPathAllowed(dres'.name)) =>
                (dres'.err = "ENOENT" /\ dres'.node = NoNode /\ dres'.calls = 0)
          /\ (dres'.op = "Lookup" /\ dres'.err = "nil") => IsPathAllowed(dres'.name)]_vars

\* A step in which Op.ShouldRetry is called: a backend call of a retried
\* operation has just returned an error that is not passed through
ShouldRetryCalled ==
    /\ op.pc = "run" /\ op.kind # "CreateFile"
    /\ Len(op'.trace) > Len(op.trace)
    /\ LET e == op'.trace[Len(op.trace) + 1] IN
       \/ e.ev = "attempt" /\ ~IsSuccessOrBenignError(e.err)
       \/ e.ev = "open" /\ e.err # "nil"

\* Op.ShouldRetry returned true in this step: the operation goes on with
\* its next attempt
ShouldRetryReturnedTrue == op'.pc = "run" /\ op'.Attempt = op.Attempt + 1

\* C13: while attempts remain, ShouldRetry returns true when the clock is at
\* or before the deadline of the operation (the time of StartOperation plus
\* TimeLimit) and false once the clock is past it; the deadline is fixed when
\* the operation starts and no retry or sleep extends it.
C13_RetryUntilDeadline ==
    [][/\ (ShouldRetryCalled /\ op.Attempt < MaxAttempts) =>
             (ShouldRetryReturnedTrue <=> now <= op.started + TimeLimit)
       /\ (op.pc = "run" /\ op'.kind = op.kind /\ op'.pc \in {"run", "done"}) =>
             (op'.Expires = op.Expires /\ op'.started = op.started)]_vars

\* C13 witness: an operation that was retried and slept has then been given
\* up past its deadline although attempts remained
C13_Witness ==
    /\ op.pc = "done" /\ ~IsSuccessOrBenignError(op.err)
    /\ op.kind \in AccessorOps \ {"CreateFile"}
    /\ CountEvents(op, "sleep") >= 1
    /\ op.Attempt < MaxAttempts
    /\ now > op.started + TimeLimit

\* C14: with randomization off, the k-th ShouldRetry call of an operation
\* sleeps 0 for k = 1, MinDelay for k = 2 and min(previous sleep x
\* ExpBackoffBase, MaxDelay) for k > 2; with MinDelay = 1 s, MaxDelay = 60 s
\* and base 1.618 the sleep has reached 60 s by attempt 12.
C14_BackoffSequence ==
    (~bk.policy.RandomizeDelays /\ bk.k >= 1 /\ bk.result) =>
        /\ bk.k = 1 => bk.sleep = 0
        /\ bk.k = 2 => bk.sleep = bk.policy.MinDelay
        /\ bk.k > 2 => bk.sleep = Min((bk.prev * ExpBackoffBaseMilli) \div 1000,
                                      bk.policy.MaxDelay)
        /\ (bk.policy.MinDelay = DefaultMinDelayMilli /\ bk.k >= 12) =>
               bk.sleep = DefaultMaxDelayMilli

\* C14 witness: the twelfth ShouldRetry call of an operation under the
\* default delays has slept
C14_Witness ==
    /\ ~bk.policy.RandomizeDelays /\ bk.policy.MinDelay = DefaultMinDelayMilli
    /\ bk.k = 12 /\ bk.result /\ bk.prev > 0

\* C15, as amended: every sleep of ShouldRetry is at most the delay it
\* computed and at most the larger of MinDelay and MaxDelay; under a policy
\* with MinDelay <= MaxDelay the computed delay never decreases from one call
\* of an operation to the next and no sleep exceeds MaxDelay, and without
\* randomization the sleeps themselves never decrease.
C15_DelaysBounded ==
    [][(bk'.k = bk.k + 1 /\ bk'.result) =>
          /\ bk'.sleep <= bk'.Delay
          /\ bk'.sleep <= Max(bk.policy.MinDelay, bk.policy.MaxDelay)
          /\ bk.policy.MinDelay <= bk.policy.MaxDelay =>
                /\ bk'.Delay >= bk.Delay
                /\ bk'.sleep <= bk.policy.MaxDelay
                /\ ~bk.policy.RandomizeDelays => bk'.sleep >= bk.sleep]_vars

\* C15 witness: under a randomizing policy with MinDelay below MaxDelay, a
\* ShouldRetry call has slept less than the call before it
C15_Witness ==
    /\ bk.policy.RandomizeDelays /\ bk.policy.MinDelay < bk.policy.MaxDelay
    /\ bk.k >= 3 /\ bk.result
    /\ bk.sleep < bk.prev

\* C15 as stated: for every retry policy the sleeps of successive
\* ShouldRetry calls of one operation are non-decreasing and never exceed
\* MaxDelay.
C15_AsStated ==
    (bk.k >= 1 /\ bk.result) =>
        /\ bk.sleep <= bk.policy.MaxDelay
        /\ bk.k >= 2 => bk.sleep >= bk.prev

\* C16: a ReadPartial that misses both cached fragments issues a backend
\* Seek exactly when the requested offset lies behind the backend stream
\* offset or more than 2 x BLOCKSIZE ahead of it; when it is ahead by at most
\* 2 x BLOCKSIZE the gap is read through (at least the gap and one byte are
\* read from where the stream stands) and no Seek is issued.
C16_SeekOnlyBehindOrFarAhead ==
    [][(/\ req.pc = "partial"
        /\ ~InFragment(Buffer1, req.fileOffset)
        /\ ~InFragment(Buffer2, req.fileOffset)) =>
          LET gap == req.fileOffset - fhrOffset IN
          /\ req'.seeks = req.seeks + 1 <=> (gap < 0 \/ gap > 2 * BLOCKSIZE)
          /\ req'.seeks \in {req.seeks, req.seeks + 1}
          /\ (gap > 0 /\ gap <= 2 * BLOCKSIZE) =>
                /\ hdfsPosition' = hdfsPosition /\ fhrOffset' = fhrOffset
                /\ req'.pc = "backend" /\ req'.minBytesToRead = gap + 1
                /\ Buffer1' = [Offset |-> fhrOffset, Data |-> <<>>]
                /\ req'.holes = req.holes + 1]_vars

\* C16 witness: after an earlier read, a request more than 2 x BLOCKSIZE
\* ahead of the stream has missed both fragments and caused a Seek
C16_Witness ==
    /\ nReqs > 1 /\ req.pc = "backend" /\ req.seeks = 1 /\ req.holes = 0
    /\ Len(Buffer2.Data) > 0
    /\ req.fileOffset > Buffer2.Offset + Len(Buffer2.Data) + 2 * BLOCKSIZE

\* A step that serves a Write request
IsWriteStep == nWriterReqs'.write = nWriterReqs.write + 1

RECURSIVE ZipWalk(_, _, _, _)
\* The node that the chain of Lookups of components, from the i-th on,
\* resolves to when started at node
ZipWalk(tree, node, components, i) ==
    IF i > Len(components) THEN node
    ELSE IF node.kind # "ZipDir" THEN NoZipNode
    ELSE ZipWalk(tree, ZipLookupIn(tree, node.path, components[i]), components, i + 1)

\* The directories of an archive: the root, the ancestors of every entry,
\* and the directory entries themselves
ArchiveDirs(archive) ==
    {p \in ZipPaths(MaxZipDepth) \cup {<<>>} :
        \E i \in DOMAIN archive :
           /\ IsPathPrefix(p, EntryPath(archive[i].Name))
           /\ p # EntryPath(archive[i].Name) \/ IsDirEntry(archive[i].Name)}

\* The immediate children of the directory p of an archive
ArchiveChildren(archive, p) ==
    {n \in ZipNames :
        \E i \in DOMAIN archive : IsPathPrefix(Append(p, n), EntryPath(archive[i].Name))}

\* C18: for every file entry c1/.../cn of an archive, with or without
\* directory entries for its ancestors, the chain of Lookups c1, ..., cn from
\* the archive root resolves to a file node that carries the uncompressed
\* size of the entry, and every directory of the tree lists exactly its
\* immediate children.
C18_ArchiveTreeMatchesEntries ==
    ztree # NoTree =>
        /\ \A i \in DOMAIN zarchive :
              ~IsDirEntry(zarchive[i].Name) =>
                 LET node == ZipWalk(ztree, ZipRoot, zarchive[i].Name, 1) IN
                 node.kind = "ZipFile" /\ node.Size = zarchive[i].Size
        /\ \A p \in ArchiveDirs(zarchive) :
              LET node == ZipWalk(ztree, ZipRoot, p, 1) IN
              /\ node.kind = "ZipDir"
              /\ ZipReadDirIn(ztree, node.path) = ArchiveChildren(zarchive, p)

\* Every call of Unmount has returned and at least one was made
UnmountReturned ==
    /\ \A u \in Unmounters : unmounter[u] \in {"idle", "done"}
    /\ \E u \in Unmounters : unmounter[u] = "done"

\* C19: every resource registered with CloseOnUnmount is closed by Unmount,
\* and closed exactly once, however the registrations and the calls of
\* Unmount (by the signal handler and by the deferred call) interleave: once
\* Unmount has returned no registered resource is open, and no resource is
\* ever closed twice.
C19_RegisteredClosedExactlyOnce ==
    /\ \A r \in Resources : closeCount[r] <= 1
    /\ UnmountReturned =>
          \A i \in DOMAIN closeOnUnmount : closeCount[closeOnUnmount[i]] = 1

\* A ReadAt call holds stream r: between getReaderFromPoolOrCreateNew and the
\* deferred return of the stream
InUse(r) ==
    \E t \in Threads :
        calls[t].pc \in {"seek", "read", "return"} /\ calls[t].reader = r

\* Stream r is stored in the pool
Pooled(r) == \E k \in DOMAIN Pool : Pool[k] = r

\* C20: under any interleaving of ReadAt and Close calls on one
\* RandomAccessReader, a stream that has not been handed to Close is in the
\* pool exactly when no ReadAt holds it: two ReadAt calls never hold the same
\* stream, no stream is both pooled and held, a stream is pooled under one key
\* only, and a stream that was closed is neither pooled nor held, so that no
\* Position, Seek or Read is issued on a closed stream.
C20_PooledIffIdle ==
    /\ \A t \in Threads, u \in Threads :
          (t # u /\ calls[t].pc \in {"seek", "read", "return"}
                 /\ calls[u].pc \in {"seek", "read", "return"})
              => calls[t].reader # calls[u].reader
    /\ \A k1 \in DOMAIN Pool, k2 \in DOMAIN Pool :
          k1 # k2 => Pool[k1] # Pool[k2]
    /\ \A r \in DOMAIN streams :
          /\ ~(Pooled(r) /\ InUse(r))
          /\ streams[r].IsClosed => ~Pooled(r) /\ ~InUse(r)
          /\ ~streams[r].IsClosed => (Pooled(r) <=> ~InUse(r))
    /\ PoolIsNil => Pool = <<>>

\* C20 witness: Close of the reader ran while two ReadAt calls were in flight
\* on two different streams, one of them taken from the pool; one call has
\* since returned without error and its stream was closed instead of pooled,
\* the other call is still reading from its own open stream.
C20_Witness ==
    \E t \in Threads, u \in Threads :
        /\ t # u
        /\ PoolIsNil
        /\ Len(streams) < nCalls
        /\ calls[t].pc = "read" /\ calls[t].data # <<>>
        /\ ~streams[calls[t].reader].IsClosed
        /\ calls[u].pc = "done" /\ calls[u].err = "nil"
        /\ calls[u].reader # NoReader /\ calls[u].reader # calls[t].reader
        /\ streams[calls[u].reader].IsClosed

\* C21: whenever ReadAt returns an error, whichever step failed (OpenRead,
\* Position, Seek or the read, a short read at end of file included), the
\* stream the call used is closed and is not in the pool.
C21_ErrorClosesStream ==
    \A t \in Threads :
        LET c == calls[t] IN
        (c.pc = "done" /\ c.err # "nil" /\ c.reader # NoReader)
            => streams[c.reader].IsClosed /\ ~Pooled(c.reader)

\* No ReadAt call is between taking its stream and its deferred return
NoCallInFlight ==
    \A t \in Threads : calls[t].pc \in {"idle", "done"}

\* C22: after Close of a RandomAccessReader, every ReadAt started afterwards
\* fails with the reader-closed error and opens no stream, nothing is pooled,
\* and once the calls that were in flight have returned every stream ever
\* opened through the reader has been closed.
C22_ClosedReaderLeaksNothing ==
    [][ /\ (PoolIsNil /\ nCalls' # nCalls) =>
              /\ streams' = streams
              /\ \E t \in Threads :
                    /\ \A u \in Threads \ {t} : calls'[u] = calls[u]
                    /\ calls[t].pc \in {"idle", "done"}
                    /\ calls'[t].pc = "done"
                    /\ calls'[t].err = "closed"
                    /\ calls'[t].reader = NoReader
        /\ PoolIsNil' =>
              /\ Pool' = <<>>
              /\ NoCallInFlight' =>
                    \A r \in DOMAIN streams' : streams'[r].IsClosed
      ]_vars

\* C22 witness: two streams were opened by two concurrent calls, the reader
\* was closed, both calls have returned, a call started after Close got the
\* reader-closed error, and both streams are closed.
C22_Witness ==
    /\ PoolIsNil
    /\ NoCallInFlight
    /\ Len(streams) = 2
    /\ \A r \in DOMAIN streams : streams[r].IsClosed
    /\ \E t \in Threads : calls[t].pc = "done" /\ calls[t].err = "closed"
    /\ \E t \in Threads : /\ calls[t].pc = "done" /\ calls[t].err = "nil"
                           /\ calls[t].data # <<>>

\* Kernel request k is executing an operation on handle h: a Read, Write or
\* Flush between Lock and Unlock, or a Release between its two halves
OnHandle(k, h) ==
    kreq[k].h = h /\ kreq[k].pc \in {"locked", "writer"}

\* C23: no two operations on the same file handle (Read, Write, Flush,
\* Release) execute at the same time; Release in particular does not run
\* while a Read, Write or Flush on the handle is in progress.
C23_HandleOpsSerialized ==
    \A k1 \in KernelThreads, k2 \in KernelThreads, h \in DOMAIN fileHandles :
        k1 # k2 => ~(OnHandle(k1, h) /\ OnHandle(k2, h))

\* The handles Open returned that Release has not yet been through
LiveHandles ==
    {h \in DOMAIN fileHandles : fileHandles[h].release # "done"}

\* C24: at every moment the file's list of active handles holds exactly the
\* handles Open or Create returned that were not yet released, each once, so
\* that the list does not grow with the opens of the past and the handles
\* Fsync dispatches to are handles of that list.
C24_ActiveHandlesAreLiveHandles ==
    /\ {activeHandles[i] : i \in DOMAIN activeHandles} = LiveHandles
    /\ Len(activeHandles) = Cardinality(LiveHandles)
    /\ \A k \in KernelThreads :
          kreq[k].reached \subseteq {activeHandles[i] : i \in DOMAIN activeHandles}

\* C25: if Flush returns an error, the handle still counts its staged bytes
\* as unflushed (BytesWritten is not zero), so that the next Flush or Fsync
\* attempts the upload again.
C25_FailedFlushStaysDirty ==
    (writer.pc = "idle" /\ writer.last = "Flush" /\ writer.err # "nil")
        => writer.BytesWritten > 0

\* C26: when an attempt of Flush fails with a malignant error while the
\* retry policy allows another attempt, Flush does not return: it closes the
\* wire client and runs the attempt again.
C26_MalignantFlushIsRetried ==
    [][ (writer.pc = "flush" /\ writer'.pc = "idle" /\ writer'.err = "EIO")
            => ~CanRetry(writer.op) ]_vars

\* The fragment holds the bytes of the file found at its recorded offset
FragmentIsTrue(frag) ==
    \A i \in DOMAIN frag.Data :
        /\ frag.Offset + i - 1 < FhrFileSize
        /\ frag.Data[i] = generateByteAtOffset(frag.Offset + i - 1)

\* C27: after every read on a file handle the reader's tracked backend
\* offset equals the actual position of the backend stream, each fragment
\* holds the file bytes found at its recorded offset, and the bytes returned
\* are the file bytes at the requested offset; also when the backend rejects
\* a forward Seek past the end of the file.
C27_OffsetAndFragmentsTrue ==
    req.pc = "done" =>
        /\ fhrOffset = hdfsPosition
        /\ FragmentIsTrue(Buffer1)
        /\ FragmentIsTrue(Buffer2)
        /\ FragmentIsTrue([Offset |-> req.offset, Data |-> req.data])

\* C28: after a ReadDir of the directory, Lookup and then Attr on a listed
\* child, before the attribute TTL has elapsed since the ReadDir, issue no
\* call to the store.
C28_ListThenAttrIsOneCall ==
    /\ (dres.op = "Lookup" /\ dres.wasListed /\ dres.name \in Names) => dres.calls = 0
    /\ ( /\ dres.op = "Attr"
         /\ dres.name \in listed
         /\ Entries[dres.name] = dres.node
         /\ dres.before.obtainedAt # ZeroTime
         /\ dres.at <= dres.before.obtainedAt + AttrTTL )
       => dres.calls = 0

\* C29: once a child node is cached under a name, the entry of that name
\* refers to the same node until a Remove or Rename of the name succeeds:
\* no other step replaces or drops it.
C29_EntryKeepsItsNode ==
    [][ \A n \in AllNames :
          (Entries[n] # NoNode /\ Entries'[n] # Entries[n])
              => /\ dres'.op \in {"Remove", "Rename"}
                 /\ dres'.name = n
                 /\ dres'.err = "nil"
      ]_vars

\* C30: when the re-stat that Attr triggers on a node with expired
\* attributes fails, the cached attributes of the node, its name among
\* them, are left as they were.
C30_FailedRestatKeepsAttrs ==
    (dres.op = "Attr" /\ dres.err # "nil")
        => nodes[dres.node].Attrs = dres.before

\* C31: a Lookup of the new name that follows a successful Rename returns a
\* node made after the rename, of the kind of the renamed object, and never
\* a node that was recorded under the new name before the rename
C31_RenamedNameLooksUpRenamedObject ==
    [][(/\ dres.op = "Rename" /\ dres.err = "nil"
        /\ nDirOps' = nDirOps + 1
        /\ dres'.op = "Lookup" /\ dres'.name = dres.newName /\ dres'.err = "nil")
          => /\ dres'.node \notin DOMAIN nodes
             /\ nodes'[dres'.node].Attrs.isDir = hdfs[dres.newName].isDir]_vars

\* C32: no Lookup, ReadDir, Mkdir, Create, Remove or Rename sends a request
\* to the store for a path that the prefix gate denies (for Rename, neither
\* for its source nor for its destination), and none records a node under a
\* name whose path the gate denies
C32_GateDeniedNeverRequested ==
    [][(nDirOps' = nDirOps + 1 /\
        dres'.op \in {"Lookup", "ReadDirAll", "Mkdir", "Create", "Remove", "Rename"}) =>
          /\ (dres'.op # "ReadDirAll" /\ dres'.calls > 0) => IsPathAllowed(dres'.name)
          /\ (dres'.op = "Rename" /\ dres'.calls > 0) => IsPathAllowed(dres'.newName)
          /\ \A n \in AllNames :
                (Entries'[n] # Entries[n] /\ Entries'[n] # NoNode) => IsPathAllowed(n)]_vars

\* C33: every path that the prefix gate allows is reached from the root by
\* Lookups: a Lookup that the gate refuses is never the Lookup of a
\* directory on the way to a path that the gate allows
C33_AllowedPathsAreReachable ==
    (gate.res.op = "Lookup" /\ gate.res.err = "ENOENT") =>
        LET refused == Append(gate.dir, gate.res.name) IN
        \A p \in GatePaths :
           (Len(p) >= Len(refused) /\ SubSeq(p, 1, Len(refused)) = refused)
              => ~IsPathAllowedBy(gate.prefixes, AbsolutePath(p))

\* C34: after a transport failure against name node address i (a failed
\* connect, a failed health check, a malignant error of a call on the
\* established client) the next connect attempt targets address
\* (i + 1) mod n; after a successful connect the index stays on the
\* address connected to
C34_NextAttemptIsNextAddress ==
    [][/\ (acc'.nAttempts = acc.nAttempts + 1 /\ acc.lastFailure # NoAddress)
            => acc'.attempt = (acc.lastFailure + 1) % acc.n
       /\ \A t \in AccThreads :
            (athr[t].pc = "connecting" /\ athr'[t].pc # "connecting" /\
             acc'.lastFailure = NoAddress)
               => acc'.CurrentNameNodeIdx = acc.CurrentNameNodeIdx]_vars

\* Thread t is at a read or a write of the cached MetadataClient: the nil
\* test, the assignment after a connect, the call on the client
AtMetadataClient(t) ==
    athr[t].op # "OpenRead" /\ athr[t].pc \in {"check", "connecting", "call"}

\* C35: every metadata operation and every connect or reconnect of the
\* metadata client, the one of EnsureConnected included, runs with
\* MetadataClientMutex held, so that no two threads are at the cached
\* metadata client at the same time
C35_MetadataClientUnderMutex ==
    /\ \A t \in AccThreads : AtMetadataClient(t) => acc.Mutex = t
    /\ \A t, u \in AccThreads : (AtMetadataClient(t) /\ AtMetadataClient(u)) => t = u

\* C36: under concurrent Lookup and ReadDirAll calls on one archive root
\* the archive is parsed at most once, and every call that gets past
\* ReadArchive reads the finished tree: it sees all entries of the archive
C36_ParsedOnceAndSeenWhole ==
    /\ zroot.nParsed <= 1
    /\ \A t \in ZrootThreads :
          zthr[t].pc = "done" => (zthr[t].err # "fatal" /\
                                 (zthr[t].err = "nil" => zthr[t].seen = RootEntries))

\* C37: every Read on an archive-file handle returns in the end, whatever
\* its offset and whatever other requests arrive or fail to arrive
C37_EveryReadReturns ==
    \A t \in ZfhThreads : (zreq[t].pc # "idle") ~> (zreq[t].pc = "idle")

\* C38: Close on a fault-tolerant stream completes without fault in every
\* state, also when a failed reopen or a failed seek has left the wrapped
\* stream absent, and it closes the wrapped stream if and only if one is
\* present
C38_CloseNeverFaults ==
    [][(nOps'.stream = nOps.stream + 1 /\ op'.kind = "Close") =>
          /\ op'.pc = "done"
          /\ CountEvents(op', "Close") = 1 <=> reader.Impl]_vars

\* A step of Read in which the absent backend stream is reopened
ReopenStep ==
    /\ op.pc = "run" /\ op.kind = "Read" /\ ~reader.Impl
    /\ Len(op'.trace) > Len(op.trace)
    /\ op'.trace[Len(op.trace) + 1].ev = "open"

\* C39 (as amended): when the seek of the reopened stream to the virtual
\* offset fails, Read returns that error at once, with no further attempt and
\* no sleep; when the reopen itself fails, Read sleeps and reopens again as
\* long as the retry policy allows (attempts left, deadline not passed) and
\* returns the error of the reopen once it does not; in both cases the
\* virtual offset is unchanged.
C39_FailedSeekReturnsFailedReopenRetries ==
    [][ReopenStep =>
          LET e == op'.trace[Len(op.trace) + 1] IN
          /\ reader'.Offset = reader.Offset
          /\ e.err # "nil" =>
                /\ ~reader'.Impl
                /\ IF op.Attempt < MaxAttempts /\ now <= op.Expires
                   THEN /\ op'.pc = "run" /\ op'.Attempt = op.Attempt + 1
                        /\ CountEvents(op', "sleep") = CountEvents(op, "sleep") + 1
                   ELSE /\ op'.pc = "done" /\ op'.err = e.err
                        /\ CountEvents(op', "sleep") = CountEvents(op, "sleep")
          /\ (e.err = "nil" /\ ~reader'.Impl) =>
                /\ op'.pc = "done" /\ op'.err = "EIO"
                /\ CountEvents(op', "sleep") = CountEvents(op, "sleep")
                /\ CountEvents(op', "open") = CountEvents(op, "open") + 1
                /\ CountEvents(op', "attempt") = CountEvents(op, "attempt")]_vars

\* C39 witness: a Read whose reopen failed was made to sleep and reopen
\* again, and returned the error of the reopen when the policy allowed no
\* more, the virtual offset being where it was
C39_Witness ==
    /\ op.pc = "done" /\ op.kind = "Read" /\ op.err = "EIO"
    /\ reader.Offset = op.startOffset /\ ~reader.Impl
    /\ \E i \in DOMAIN op.trace :
          /\ i + 2 <= Len(op.trace)
          /\ op.trace[i].ev = "open" /\ op.trace[i].err = "EIO"
          /\ op.trace[i + 1].ev = "sleep"
          /\ op.trace[i + 2].ev = "open" /\ op.trace[i + 2].err = "EIO"
          /\ i + 2 = Len(op.trace)

\* C39 as stated: a failed reopen, like a failed seek, makes Read return at
\* once, with no further attempt and no sleep
C39_AsStated ==
    [][ReopenStep =>
          LET e == op'.trace[Len(op.trace) + 1] IN
          (e.err # "nil" \/ ~reader'.Impl) =>
             /\ op'.pc = "done"
             /\ CountEvents(op', "sleep") = CountEvents(op, "sleep")
             /\ reader'.Offset = reader.Offset]_vars

\* C40: once the signal handler has set MaxAttempts of the shared policy to
\* 0, every ShouldRetry call returns false, also for an operation that was
\* already in its retry loop: the next attempt of an operation in flight is
\* its last, and the operation returns the error of that attempt without
\* another sleep
C40_NoRetryAfterSignal ==
    [][(MaxAttempts = 0 /\ op.pc = "run" /\ Len(op'.trace) > Len(op.trace)) =>
          LET e == op'.trace[Len(op.trace) + 1] IN
          /\ ShouldRetryCalled => ~ShouldRetryReturnedTrue
          /\ (e.ev = "attempt" \/ (e.ev = "open" /\ e.err # "nil")) =>
                /\ op'.pc = "done" /\ op'.err = e.err
                /\ CountEvents(op', "sleep") = CountEvents(op, "sleep")]_vars

\* C40 witness: an operation that had been retried and had slept returned
\* a malignant error after the signal, although attempts of the policy it
\* started with and time remained
C40_Witness ==
    /\ MaxAttempts = 0
    /\ op.pc = "done" /\ op.err = "EIO" /\ op.kind \in {"Stat", "Read"}
    /\ CountEvents(op, "sleep") >= 1
    /\ op.Attempt < op.maxAtStart /\ now <= op.Expires

====
